---- MODULE Spec2Model ----
(***************************************************************************)
(* Model of the evaluation pipeline of srebench:                           *)
(*   src/src/eval_pipeline/comparison_utils.py                             *)
(*   src/src/eval_pipeline/result_comparator.py                            *)
(*   src/src/eval_pipeline/efficiency_evaluator.py                         *)
(*   src/src/eval_pipeline/scenario_loader.py                              *)
(*   src/src/eval_pipeline/evaluation_writer.py                            *)
(*   src/src/eval_pipeline/scenario_evaluator_orchestrator.py              *)
(*                                                                         *)
(* JSON-like Python values are encoded as tagged records so that every     *)
(* value of one kind has the same fields:                                  *)
(*   t  the Python type ("absent" = key not in the dict, "null" = None,    *)
(*      "str", "num", "list", "rec" = dict)                                *)
(*   s  the content of a string, as a sequence of words (see Words)        *)
(*   n  the value of a number, or the length of a list / size of a dict    *)
(* Scores are exact fractions [num, den] instead of floats.                *)
(***************************************************************************)
EXTENDS Integers, Sequences, FiniteSets, TLC

VARIABLES
    \* compare_component(comp1, comp2)
    comp1, comp2, comp_pc, comp_ret,
    \* calculate_semantic_similarity(text1, text2)
    text1, text2, sim_pc, sim_ret, sim_vectorized,
    \* ResultComparator._compare_root_cause / _compare_resolution
    agent_sec, gt_sec, sec_pc, sec_ret,
    \* calculate_causal_graph_score(graph1, graph2) and its locals
    graph1, graph2, fuzz, cg_pc, agent_labels, gt_labels, idx,
    match_count, remaining_gt_labels, pool_obj, cg_ret,
    \* the iterations of the greedy pass that ran "match_count += 1"
    matched,
    \* ResultComparator.compare(agent_output, ground_truth)
    agent_output, ground_truth, cmp_pc, cmp_ret

compVars == <<comp1, comp2, comp_pc, comp_ret>>
simVars == <<text1, text2, sim_pc, sim_ret, sim_vectorized>>
secVars == <<agent_sec, gt_sec, sec_pc, sec_ret>>
cgVars == <<graph1, graph2, fuzz, cg_pc, agent_labels, gt_labels, idx,
            match_count, remaining_gt_labels, pool_obj, cg_ret, matched>>
cmpVars == <<agent_output, ground_truth, cmp_pc, cmp_ret>>

VARIABLES
    \* _extract_labels(graph) called on its own
    ex_graph, ex_pc, ex_labels

extractVars == <<ex_graph, ex_pc, ex_labels>>
scoreVars == <<compVars, simVars, secVars, cgVars, cmpVars, extractVars>>

VARIABLES
    \* EfficiencyEvaluator: its field, the wall clock and the calls made so far
    _start_time, clock, calls,
    \* ScenarioLoader.load_scenario(scenario_id) on the files of fs
    load_id, load_fs, load_pc, load_ret,
    \* ScenarioEvaluatorOrchestrator.evaluate_scenario(scenario_id), one
    \* entry per evaluation: position, argument, the files of the scenario
    \* and the locals
    orch_pc, orch_id, orch_fs, scenario_data, orch_agent_output,
    efficiency_score, scenario_results, orch_ret,
    \* the method that is running, the calls it has made to the components
    \* so far, and the clock at its own start_timer and stop calls
    orch_method, orch_calls, own_timer,
    \* ScenarioEvaluationWriter: self.run_dir, the directories under base_dir
    \* and the results.json files in them
    run_dir, run_dirs, results_json,
    \* compare calls running at the same time on one ResultComparator: the
    \* position, the arguments and the outcome of each call, the local
    \* variables by frame, and whether steps of two calls were interleaved
    cc_pc, cc_args, cc_frame, cc_ret, cc_interleaved

timerVars == <<_start_time, clock, calls>>
loadVars == <<load_id, load_fs, load_pc, load_ret>>
orchVars == <<orch_pc, orch_id, orch_fs, scenario_data, orch_agent_output,
              efficiency_score, scenario_results, orch_ret, orch_method,
              orch_calls, own_timer>>
writerVars == <<run_dir, run_dirs, results_json>>
ccVars == <<cc_pc, cc_args, cc_frame, cc_ret, cc_interleaved>>
pipeVars == <<timerVars, loadVars, orchVars, writerVars, ccVars, extractVars>>
\* everything but extractVars
graphCallVars == <<compVars, simVars, secVars, cgVars, cmpVars, timerVars,
                   loadVars, orchVars, writerVars, ccVars>>
vars == <<scoreVars, pipeVars>>

----------------------------------------------------------------------------
(* Bounds *)

\* longest text (in words) drawn as an input of the text similarity
MaxWords == 2
\* longest nodes list drawn as an input of the causal graph score
MaxNodes == 2
\* latest reading of the wall clock
MaxClock == 3
\* longest sequence of calls made on one EfficiencyEvaluator
MaxCalls == 4

----------------------------------------------------------------------------
(* Python values *)

Absent == [t |-> "absent", s |-> <<>>, n |-> 0]
Null == [t |-> "null", s |-> <<>>, n |-> 0]
Str(w) == [t |-> "str", s |-> w, n |-> 0]
Num(k) == [t |-> "num", s |-> <<>>, n |-> k]
\* a list of k None entries
List(k) == [t |-> "list", s |-> <<>>, n |-> k]
\* a dict with k keys that no scoring function reads
Rec(k) == [t |-> "rec", s |-> <<>>, n |-> k]

\* bool(v): None, "", 0, [] and {} are falsy
Truthy(v) ==
    CASE v.t = "str" -> v.s # <<>>
      [] v.t \in {"num", "list", "rec"} -> v.n # 0
      [] OTHER -> FALSE

\* isinstance(v, dict)
IsDict(v) == v.t = "rec"

\* isinstance(v, str)
IsStr(v) == v.t = "str"

\* d.get(k): None when the key is absent
Get(d, k) == IF d[k].t = "absent" THEN Null ELSE d[k]

\* d.get(k) written where d.get(k, default) is meant
GetDefault_NoDefault(d, k, default) == IF d[k].t = "absent" THEN Null ELSE d[k]

\* d.get(k, default)
GetDefault(d, k, default) == IF d[k].t = "absent" THEN default ELSE d[k]

\* the outcome of a call: a returned value or a raised exception
Return(v) == [exc |-> "none", val |-> v]
Raise(e, zero) == [exc |-> e, val |-> zero]

\* scores as fractions
Frac(a, b) == [num |-> a, den |-> b]
Zero == Frac(0, 1)
One == Frac(1, 1)
IsZero(x) == x.num = 0 /\ x.den > 0
IsOne(x) == x.num = x.den /\ x.den > 0
InUnit(x) == x.den > 0 /\ 0 <= x.num /\ x.num <= x.den
FracEq(x, y) == x.num * y.den = y.num * x.den
\* w/10 * x, for a weight given in tenths
Weighted(w, x) == Frac(w * x.num, 10 * x.den)
\* x + y for denominators of which one divides the other (powers of ten)
Plus(x, y) ==
    LET d == IF x.den > y.den THEN x.den ELSE y.den
    IN Frac(x.num * (d \div x.den) + y.num * (d \div y.den), d)

----------------------------------------------------------------------------
(* compare_component *)

\* a component reference {kind, name, namespace}; fields may be absent
Component(k, nm, ns) == [t |-> "rec", kind |-> k, name |-> nm, namespace |-> ns]
\* a component value that is not a dict
NonRecComponent(tag) ==
    [t |-> tag, kind |-> Absent, name |-> Absent, namespace |-> Absent]

\* the namespace compared only when both sides supply one
compare_component_BothNamespaces(c1, c2) ==
    IF ~IsDict(c1) \/ ~IsDict(c2) THEN Zero
    ELSE IF Get(c1, "kind") # Get(c2, "kind") \/ Get(c1, "name") # Get(c2, "name")
    THEN Zero
    ELSE LET comp1_ns == Get(c1, "namespace")
             comp2_ns == Get(c2, "namespace")
         IN IF (comp1_ns # Null /\ comp2_ns # Null) /\ comp1_ns # comp2_ns
            THEN Zero
            ELSE One

compare_component(c1, c2) ==
    IF ~IsDict(c1) \/ ~IsDict(c2) THEN Zero
    ELSE IF Get(c1, "kind") # Get(c2, "kind") \/ Get(c1, "name") # Get(c2, "name")
    THEN Zero
    ELSE LET comp1_ns == Get(c1, "namespace")
             comp2_ns == Get(c2, "namespace")
         IN IF (comp1_ns # Null \/ comp2_ns # Null) /\ comp1_ns # comp2_ns
            THEN Zero
            ELSE One

\* field values of the component inputs
KindValues == {Absent, Null, Str(<<"Database">>), Str(<<"Deployment">>)}
NameValues == {Absent, Null, Str(<<"auth-db">>), Str(<<"auth-svc">>)}
NamespaceValues == {Absent, Null, Str(<<"prod">>), Str(<<"dev">>)}
\* Python types of a component argument that is not a dict
NonRecTags == {"null", "str", "list", "num"}

ComponentInputs ==
    {Component(k, nm, ns) : k \in KindValues, nm \in NameValues,
                            ns \in NamespaceValues}
    \cup {NonRecComponent(tag) : tag \in NonRecTags}

----------------------------------------------------------------------------
(* calculate_semantic_similarity *)

\* A string is a sequence of words.  " " is a run of whitespace, "a" a
\* one-character word, the others are words of two or more characters;
\* "DB" and "db" differ only in case.
Words == {" ", "a", "db", "DB", "pool"}

\* s.strip() == ""
IsBlank(s) == \A i \in 1..Len(s) : s[i] = " "

\* str.lower() of one word
Lower(w) == IF w = "DB" THEN "db" ELSE w

\* TfidfVectorizer's default analyzer: lowercase, then keep the tokens
\* matching \b\w\w+\b (two or more word characters)
IsToken(w) == w \notin {" ", "a"}
Tokens(s) == {Lower(s[i]) : i \in {j \in 1..Len(s) : IsToken(s[j])}}

\* term frequency of token tok in s
Tf(s, tok) == Cardinality({i \in 1..Len(s) : IsToken(s[i]) /\ Lower(s[i]) = tok})

\* smoothed idf over the two documents, ln(3 / (1 + df)) + 1, which is 1 for
\* a token of both documents and 1.405 for a token of one; kept as 5 : 7
Idf(s1, s2, tok) == IF tok \in Tokens(s1) /\ tok \in Tokens(s2) THEN 5 ELSE 7

RECURSIVE SumOver(_, _)
SumOver(S, f) ==
    IF S = {} THEN 0
    ELSE LET x == CHOOSE y \in S : TRUE IN f[x] + SumOver(S \ {x}, f)

\* hundredths of the similarity, after the clamp to [0, 1]
SimScale == 100

\* cosine_similarity of the two tf-idf rows, in hundredths (rounded down);
\* a zero row has similarity 0
Cosine(s1, s2) ==
    LET vocab == Tokens(s1) \cup Tokens(s2)
        v1 == [tok \in vocab |-> Tf(s1, tok) * Idf(s1, s2, tok)]
        v2 == [tok \in vocab |-> Tf(s2, tok) * Idf(s1, s2, tok)]
        dot == SumOver(vocab, [tok \in vocab |-> v1[tok] * v2[tok]])
        n1 == SumOver(vocab, [tok \in vocab |-> v1[tok] * v1[tok]])
        n2 == SumOver(vocab, [tok \in vocab |-> v2[tok] * v2[tok]])
        ok == {p \in 0..SimScale :
                  p * p * n1 * n2 <= SimScale * SimScale * dot * dot}
    IN IF n1 = 0 \/ n2 = 0 THEN 0
       ELSE CHOOSE p \in ok : \A q \in ok : q <= p

Min(a, b) == IF a < b THEN a ELSE b
Max(a, b) == IF a > b THEN a ELSE b

\* the exact-equality fallback answering 0.0 whatever the strings
EqualityFallback_AlwaysZero(t1, t2) == Zero

\* the except ValueError branch: 1.0 if text1 == text2 else 0.0
EqualityFallback(t1, t2) == IF t1 = t2 THEN One ELSE Zero

\* the guard of the first line without the strip() tests
IsBlankArg_NoStrip(t) == ~Truthy(t)

\* not text or not text.strip(), for a string or a falsy value
IsBlankArg(t) == ~Truthy(t) \/ IsBlank(t.s)

\* the call with its trace: ret is the outcome, vectorized tells whether
\* TfidfVectorizer().fit_transform was invoked
SimilarityTrace(t1, t2) ==
    IF ~Truthy(t1) THEN [ret |-> Return(Zero), vectorized |-> FALSE]
    ELSE IF ~IsStr(t1)
    THEN [ret |-> Raise("AttributeError", Zero), vectorized |-> FALSE]
    ELSE IF IsBlankArg(t1) THEN [ret |-> Return(Zero), vectorized |-> FALSE]
    ELSE IF ~Truthy(t2) THEN [ret |-> Return(Zero), vectorized |-> FALSE]
    ELSE IF ~IsStr(t2)
    THEN [ret |-> Raise("AttributeError", Zero), vectorized |-> FALSE]
    ELSE IF IsBlankArg(t2) THEN [ret |-> Return(Zero), vectorized |-> FALSE]
    ELSE IF Tokens(t1.s) \cup Tokens(t2.s) = {}
    \* TfidfVectorizer raises ValueError (empty vocabulary), caught
    THEN [ret |-> Return(EqualityFallback(t1, t2)), vectorized |-> TRUE]
    ELSE [ret |-> Return(Frac(Max(0, Min(SimScale, Cosine(t1.s, t2.s))),
                              SimScale)),
          vectorized |-> TRUE]

calculate_semantic_similarity(t1, t2) == SimilarityTrace(t1, t2).ret

RECURSIVE SeqsUpTo(_, _)
SeqsUpTo(S, n) ==
    IF n = 0 THEN {<<>>}
    ELSE LET shorter == SeqsUpTo(S, n - 1)
         IN shorter \cup {Append(q, x) : q \in shorter, x \in S}

\* arguments of the text similarity: None, numbers, lists, dicts, strings
TextInputs ==
    {Null, Num(0), Num(1), List(0), List(1), Rec(0), Rec(1)}
    \cup {Str(w) : w \in SeqsUpTo(Words, MaxWords)}

----------------------------------------------------------------------------
(* calculate_causal_graph_score *)

\* node labels; "!!!" has no alphanumeric character
LabelNames == {"High Login Rate", "Auth DB Exhaustion", "Login Latency High", "!!!"}
Label(name) == Str(<<name>>)

\* a node {id, label, type}: only the label is read
Node(lbl) == [t |-> "rec", label |-> lbl]
\* an entry of nodes that is not a dict
NonRecNode(tag) == [t |-> tag, label |-> Absent]

\* a graph {nodes, edges}: only nodes is read; nodes is a list of entries,
\* or a value that is not a list
Nodes(items) == [t |-> "list", items |-> items]
NonListNodes(tag) == [t |-> tag, items |-> <<>>]
Graph(nodes) == [t |-> "rec", nodes |-> nodes]
NonRecGraph(tag) == [t |-> tag, nodes |-> NonListNodes("absent")]

\* the list comprehension: the labels of the entries that are dicts with a
\* string label that is not blank, in order
\* the condition without "and node.get("label").strip()"
KeepsLabel_NoStrip(node) ==
    /\ IsDict(node)
    /\ IsStr(Get(node, "label"))

\* the condition of the list comprehension
KeepsLabel(node) ==
    /\ IsDict(node)
    /\ IsStr(Get(node, "label"))
    /\ ~IsBlank(Get(node, "label").s)

RECURSIVE SelectLabels(_)
SelectLabels(items) ==
    IF items = <<>> THEN <<>>
    ELSE LET node == Head(items)
         IN (IF KeepsLabel(node) THEN <<Get(node, "label")>> ELSE <<>>)
            \o SelectLabels(Tail(items))

_extract_labels(graph) ==
    IF ~IsDict(graph) THEN <<>>
    ELSE LET nodes == Get(graph, "nodes")
         IN IF nodes.t # "list" THEN <<>> ELSE SelectLabels(nodes.items)

similarity_threshold == 80

\* fuzz.token_set_ratio(a, b) under the score table f
token_set_ratio(f, a, b) == f[<<a.s[1], b.s[1]>>]

\* the inner loop: scan remaining from position i on, keeping the first
\* strictly best score and its index (0-based, -1 for none)
RECURSIVE BestMatch(_, _, _, _, _)
\* "score >= best_match_score": among equal scores the last index wins
BestMatch_LastWins(f, agent_label, remaining, i, best) ==
    IF remaining = <<>> THEN best
    ELSE LET top == CHOOSE k \in 1..Len(remaining) :
                        \A j \in 1..Len(remaining) :
                            \/ token_set_ratio(f, agent_label, remaining[j])
                                   < token_set_ratio(f, agent_label, remaining[k])
                            \/ /\ token_set_ratio(f, agent_label, remaining[j])
                                      = token_set_ratio(f, agent_label, remaining[k])
                               /\ j <= k
         IN [score |-> token_set_ratio(f, agent_label, remaining[top]),
             index |-> top - 1]

\* only the first label of the pool is compared
BestMatch_HeadOnly(f, agent_label, remaining, i, best) ==
    IF remaining = <<>> THEN best
    ELSE [score |-> token_set_ratio(f, agent_label, remaining[1]), index |-> 0]

BestMatch(f, agent_label, remaining, i, best) ==
    IF i > Len(remaining) THEN best
    ELSE LET score == token_set_ratio(f, agent_label, remaining[i])
         IN IF score > best.score
            THEN BestMatch(f, agent_label, remaining, i + 1,
                           [score |-> score, index |-> i - 1])
            ELSE BestMatch(f, agent_label, remaining, i + 1, best)

\* The list objects local to one call, by the name first bound to them.
\* remaining_gt_labels = gt_labels instead of list(gt_labels): one object
ListCopy_Alias(obj) == obj

\* list(gt_labels) builds a new list object
ListCopy(obj) == "remaining_gt_labels"

\* "del remaining_gt_labels[0]": the head goes, whatever was matched
DelAt_Head(seq, k) == Tail(seq)

\* del seq[k] for a 0-based k
DelAt(seq, k) == [j \in 1..(Len(seq) - 1) |-> IF j <= k THEN seq[j] ELSE seq[j + 1]]

\* a match is counted but the matched label stays in the pool
GreedyStep_NoRemoval(f, agent_label, count, remaining) ==
    LET best == BestMatch(f, agent_label, remaining, 1,
                          [score |-> -1, index |-> -1])
    IN IF best.score >= similarity_threshold
       THEN [match_count |-> count + 1, remaining |-> remaining]
       ELSE [match_count |-> count, remaining |-> remaining]

\* a score one point under the threshold counts as a match
GreedyStep_LowThreshold(f, agent_label, count, remaining) ==
    LET best == BestMatch(f, agent_label, remaining, 1,
                          [score |-> -1, index |-> -1])
    IN IF best.score >= similarity_threshold - 1
       THEN [match_count |-> count + 1,
             remaining |-> DelAt(remaining, best.index)]
       ELSE [match_count |-> count, remaining |-> remaining]

\* one iteration of the outer loop
GreedyStep(f, agent_label, count, remaining) ==
    LET best == BestMatch(f, agent_label, remaining, 1,
                          [score |-> -1, index |-> -1])
    IN IF best.score >= similarity_threshold
       THEN [match_count |-> count + 1,
             remaining |-> DelAt(remaining, best.index)]
       ELSE [match_count |-> count, remaining |-> remaining]

\* the outer loop from agent label i on
RECURSIVE GreedyLoop(_, _, _, _, _)
GreedyLoop(f, labels, i, count, remaining) ==
    IF i > Len(labels) THEN count
    ELSE LET step == GreedyStep(f, labels[i], count, remaining)
         IN GreedyLoop(f, labels, i + 1, step.match_count, step.remaining)

\* the denominator without the agent's label count
DiceScore_GtLenOnly(count, a_labels, g_labels) ==
    IF Len(g_labels) > 0 THEN Frac(2 * count, Len(g_labels)) ELSE One

\* recall instead of the Dice coefficient
DiceScore_Recall(count, a_labels, g_labels) ==
    IF Len(g_labels) > 0 THEN Frac(count, Len(g_labels)) ELSE One

\* the matched share of the agent labels
DiceScore_Precision(count, a_labels, g_labels) ==
    IF Len(a_labels) > 0 THEN Frac(count, Len(a_labels)) ELSE One

\* the Dice-style score of the last three lines
DiceScore(count, a_labels, g_labels) ==
    LET denominator == Len(a_labels) + Len(g_labels)
    IN IF denominator > 0 THEN Frac(2 * count, denominator) ELSE One

\* the two early returns in the opposite order
EmptyPolicy_OneEmptyFirst(a_labels, g_labels) ==
    IF a_labels = <<>> \/ g_labels = <<>> THEN [returns |-> TRUE, val |-> Zero]
    ELSE [returns |-> FALSE, val |-> Zero]

\* the two early returns on empty label lists
EmptyPolicy(a_labels, g_labels) ==
    IF a_labels = <<>> /\ g_labels = <<>> THEN [returns |-> TRUE, val |-> One]
    ELSE IF a_labels = <<>> \/ g_labels = <<>>
    THEN [returns |-> TRUE, val |-> Zero]
    ELSE [returns |-> FALSE, val |-> Zero]

calculate_causal_graph_score(f, g1, g2) ==
    LET a_labels == _extract_labels(g1)
        g_labels == _extract_labels(g2)
        early == EmptyPolicy(a_labels, g_labels)
    IN IF early.returns THEN early.val
       ELSE DiceScore(GreedyLoop(f, a_labels, 1, 0, g_labels),
                      a_labels, g_labels)

\* scores the table gives to two different labels
FuzzLevels == {79, 80}

\* token_set_ratio is symmetric, gives 100 for equal labels and 0 as soon as
\* one label has no alphanumeric character; lv gives the score of each
\* two-element set of the other labels
FuzzTable(lv) ==
    [pair \in LabelNames \X LabelNames |->
        IF pair[1] = "!!!" \/ pair[2] = "!!!" THEN 0
        ELSE IF pair[1] = pair[2] THEN 100
        ELSE lv[{pair[1], pair[2]}]]

FuzzTables ==
    LET pairs == {p \in SUBSET (LabelNames \ {"!!!"}) : Cardinality(p) = 2}
    IN {FuzzTable(lv) : lv \in [pairs -> FuzzLevels]}

\* entries of a nodes list: labelled nodes and malformed entries
NodeInputs ==
    {Node(Label(name)) : name \in LabelNames}
    \cup {Node(Str(<<" ">>)), NonRecNode("str")}

\* entries of a nodes list for the extraction alone: also a label that is
\* missing, None, a number or the empty string, and entries that are None
\* or lists
ExtractNodeInputs ==
    NodeInputs
    \cup {Node(Absent), Node(Null), Node(Num(1)), Node(Str(<<>>)),
          NonRecNode("null"), NonRecNode("list")}

ExtractGraphInputs ==
    {NonRecGraph("null"), NonRecGraph("list"), NonRecGraph("str"),
     Graph(NonListNodes("absent")), Graph(NonListNodes("null")),
     Graph(NonListNodes("str")), Graph(NonListNodes("rec"))}
    \cup {Graph(Nodes(items)) : items \in SeqsUpTo(ExtractNodeInputs, MaxNodes)}

\* graph arguments: None, a list, dicts without a nodes list, dicts with one
GraphInputs ==
    {NonRecGraph("null"), NonRecGraph("list"),
     Graph(NonListNodes("absent")), Graph(NonListNodes("null")),
     Graph(NonListNodes("str"))}
    \cup {Graph(Nodes(items)) : items \in SeqsUpTo(NodeInputs, MaxNodes)}

----------------------------------------------------------------------------
(* ResultComparator._compare_root_cause and _compare_resolution *)

RootCause(ty, rt, comp, det) ==
    [t |-> "rec", type |-> ty, resource_type |-> rt, component |-> comp,
     details |-> det]
\* a root_cause value that is not a dict ("absent": no such key)
NonRecRootCause(tag) ==
    [t |-> tag, type |-> Absent, resource_type |-> Absent,
     component |-> NonRecComponent("absent"), details |-> Absent]

Resolution(at, comp, det) ==
    [t |-> "rec", action_type |-> at, target_component |-> comp,
     details |-> det]
NonRecResolution(tag) ==
    [t |-> tag, action_type |-> Absent,
     target_component |-> NonRecComponent("absent"), details |-> Absent]

\* the exact-match rule without its "is not None" conjunct
ExactScore_NoNoneCheck(a, g, k) ==
    IF Get(a, k) = Get(g, k) THEN One ELSE Zero

\* 1.0 if a.get(k) == g.get(k) and a.get(k) is not None else 0.0
ExactScore(a, g, k) ==
    IF Get(a, k) = Get(g, k) /\ Get(a, k) # Null THEN One ELSE Zero

\* the weights, in tenths
rca_weights == [type |-> 2, resource_type |-> 2, component |-> 3, details |-> 3]
\* the weights of action_type and target_component exchanged
res_weights_Swapped ==
    [action_type |-> 4, target_component |-> 3, details |-> 3]

res_weights == [action_type |-> 3, target_component |-> 4, details |-> 3]

_compare_root_cause(agent_rc, gt_rc) ==
    IF ~IsDict(agent_rc) \/ ~IsDict(gt_rc) THEN Raise("AttributeError", Zero)
    ELSE LET type_score == ExactScore(agent_rc, gt_rc, "type")
             resource_type_score == ExactScore(agent_rc, gt_rc, "resource_type")
             component_score ==
                 compare_component(Get(agent_rc, "component"),
                                   Get(gt_rc, "component"))
             details_score_rc ==
                 calculate_semantic_similarity(
                     GetDefault(agent_rc, "details", Str(<<>>)),
                     GetDefault(gt_rc, "details", Str(<<>>)))
         IN IF details_score_rc.exc # "none"
            THEN Raise(details_score_rc.exc, Zero)
            ELSE Return(Plus(Plus(Plus(
                     Weighted(rca_weights.type, type_score),
                     Weighted(rca_weights.resource_type, resource_type_score)),
                     Weighted(rca_weights.component, component_score)),
                     Weighted(rca_weights.details, details_score_rc.val)))

_compare_resolution(agent_res, gt_res) ==
    IF ~IsDict(agent_res) \/ ~IsDict(gt_res) THEN Raise("AttributeError", Zero)
    ELSE LET action_type_score == ExactScore(agent_res, gt_res, "action_type")
             target_component_score ==
                 compare_component(Get(agent_res, "target_component"),
                                   Get(gt_res, "target_component"))
             details_score_res ==
                 calculate_semantic_similarity(
                     GetDefault(agent_res, "details", Str(<<>>)),
                     GetDefault(gt_res, "details", Str(<<>>)))
         IN IF details_score_res.exc # "none"
            THEN Raise(details_score_res.exc, Zero)
            ELSE Return(Plus(Plus(
                     Weighted(res_weights.action_type, action_type_score),
                     Weighted(res_weights.target_component, target_component_score)),
                     Weighted(res_weights.details, details_score_res.val)))

\* field values of the section inputs
TypeValues ==
    {Absent, Null, Str(<<"Resource Exhaustion">>), Str(<<"Misconfiguration">>)}
ResourceTypeValues ==
    {Absent, Str(<<"Connection Pool">>), Str(<<"Database Connections">>)}
ActionTypeValues ==
    {Absent, Null, Str(<<"Configuration Change">>), Str(<<"Scale Resource">>)}
SectionComponents ==
    {NonRecComponent("absent"), NonRecComponent("str"),
     Component(Str(<<"Database">>), Str(<<"auth-db">>), Str(<<"prod">>)),
     Component(Str(<<"Database">>), Str(<<"auth-db">>), Absent)}
DetailValues ==
    {Absent, Null, Str(<<" ">>), Str(<<"a">>), Str(<<"db", "pool">>),
     Str(<<"DB">>), Num(1)}
SectionTags == {"null", "str", "list", "num"}

RootCauseInputs ==
    {RootCause(ty, rt, c, d) : ty \in TypeValues, rt \in ResourceTypeValues,
                               c \in SectionComponents, d \in DetailValues}
    \cup {NonRecRootCause(tag) : tag \in SectionTags}

ResolutionInputs ==
    {Resolution(at, c, d) : at \in ActionTypeValues, c \in SectionComponents,
                            d \in DetailValues}
    \cup {NonRecResolution(tag) : tag \in SectionTags}

----------------------------------------------------------------------------
(* ResultComparator.compare *)

\* the top-level mapping; causal_chain is a key of the older output format
Output(rc, res, cg, chain) ==
    [root_cause |-> rc, resolution |-> res, causal_graph |-> cg,
     causal_chain |-> chain]

\* the {} defaults of the three .get calls
EmptyRootCause == RootCause(Absent, Absent, NonRecComponent("absent"), Absent)
EmptyResolution == Resolution(Absent, NonRecComponent("absent"), Absent)
EmptyGraph == Graph(NonListNodes("absent"))

NoScores == <<>>

compare(f, ao, gt) ==
    LET agent_rc == GetDefault(ao, "root_cause", EmptyRootCause)
        gt_rc == GetDefault(gt, "root_cause", EmptyRootCause)
        agent_res == GetDefault(ao, "resolution", EmptyResolution)
        gt_res == GetDefault(gt, "resolution", EmptyResolution)
        agent_cg == GetDefault(ao, "causal_graph", EmptyGraph)
        gt_cg == GetDefault(gt, "causal_graph", EmptyGraph)
        rca_root_cause_score == _compare_root_cause(agent_rc, gt_rc)
        resolution_correctness_score == _compare_resolution(agent_res, gt_res)
        rca_causal_graph_score == calculate_causal_graph_score(f, agent_cg, gt_cg)
    IN IF rca_root_cause_score.exc # "none"
       THEN Raise(rca_root_cause_score.exc, NoScores)
       ELSE IF resolution_correctness_score.exc # "none"
       THEN Raise(resolution_correctness_score.exc, NoScores)
       ELSE Return([rca_root_cause_score |-> rca_root_cause_score.val,
                    rca_causal_graph_score |-> rca_causal_graph_score,
                    resolution_correctness_score |->
                        resolution_correctness_score.val])

\* sections of the compare inputs
DbProd == Component(Str(<<"Database">>), Str(<<"auth-db">>), Str(<<"prod">>))
RootCause1 ==
    RootCause(Str(<<"Resource Exhaustion">>), Str(<<"Connection Pool">>),
              DbProd, Str(<<"db", "pool">>))
Resolution1 ==
    Resolution(Str(<<"Configuration Change">>), DbProd, Str(<<"db", "pool">>))

AgentRootCauses ==
    {NonRecRootCause(tag) : tag \in {"absent", "null", "str", "list", "num"}}
    \cup {EmptyRootCause, RootCause1,
          [RootCause1 EXCEPT !.resource_type = Str(<<"Database Connections">>),
                             !.details = Str(<<"DB">>)],
          [RootCause1 EXCEPT !.details = Num(1)],
          [RootCause1 EXCEPT !.component = NonRecComponent("str")]}
GtRootCauses ==
    {NonRecRootCause("absent"), NonRecRootCause("str"), EmptyRootCause,
     RootCause1}

AgentResolutions ==
    {NonRecResolution(tag) : tag \in {"absent", "null", "str", "list", "num"}}
    \cup {EmptyResolution, Resolution1,
          [Resolution1 EXCEPT !.action_type = Str(<<"Scale Resource">>),
                              !.details = List(1)],
          [Resolution1 EXCEPT !.target_component = NonRecComponent("list")]}
GtResolutions ==
    {NonRecResolution("absent"), NonRecResolution("str"), EmptyResolution,
     Resolution1}

AgentGraphs ==
    {NonRecGraph("absent"), NonRecGraph("null"), NonRecGraph("str"), EmptyGraph,
     Graph(Nodes(<<Node(Label("High Login Rate"))>>)),
     Graph(Nodes(<<Node(Label("High Login Rate")),
                   Node(Label("Auth DB Exhaustion"))>>))}
GtGraphs ==
    {NonRecGraph("absent"), NonRecGraph("list"), Graph(Nodes(<<>>)),
     Graph(Nodes(<<Node(Label("High Login Rate"))>>)),
     Graph(Nodes(<<Node(Label("Auth DB Exhaustion")),
                   Node(Label("High Login Rate"))>>))}

\* the score tables that differ on the two labels of these graphs
CompareFuzzTables ==
    {f \in FuzzTables :
        \A a, b \in LabelNames \ {"!!!"} :
            (a # b /\ "Login Latency High" \in {a, b}) => f[<<a, b>>] = 79}

\* what BasicLLMAgent.process_scenario_state returns when the reply of the
\* LLM is not JSON
ParsingFailedOutput ==
    Output(NonRecRootCause("str"), NonRecResolution("str"),
           NonRecGraph("absent"), List(0))

AgentOutputs ==
    {Output(rc, res, cg, chain) : rc \in AgentRootCauses,
        res \in AgentResolutions, cg \in AgentGraphs,
        chain \in {Absent, List(2)}}
    \cup {ParsingFailedOutput}
GroundTruths ==
    {Output(rc, res, cg, Absent) : rc \in GtRootCauses, res \in GtResolutions,
                                   cg \in GtGraphs}

----------------------------------------------------------------------------
(* EfficiencyEvaluator (efficiency_evaluator.py) *)

\* the value returned when the timer was not started
NotStarted == -1

\* self._start_time = time.time()
start_timer(now) == Num(now)

\* the timer keeps its start time after a stop
AfterStop_NoReset(start) == start

\* self._start_time = None  # Reset timer
AfterStop(start) == Null

\* the value returned and the new value of self._start_time
stop_timer_and_evaluate(start, now) ==
    IF start = Null
    THEN [ret |-> NotStarted, start |-> start]
    ELSE [ret |-> now - start.n, start |-> AfterStop(start)]

----------------------------------------------------------------------------
(* ScenarioLoader.load_scenario (scenario_loader.py) *)

\* the scenario directory base_path/scenario_id and what it can hold
ScenarioDir == "."
StateFiles ==
    {"state/logs.jsonl", "state/metrics.json", "state/events.jsonl",
     "state/topology.json", "state/configuration.yaml"}
GroundTruthFiles ==
    {"ground_truth/root_cause.md", "ground_truth/causal_graph.json",
     "ground_truth/resolution.md", "ground_truth/metadata.json"}
Paths ==
    {ScenarioDir, "description.md", "state", "ground_truth"}
    \cup StateFiles \cup GroundTruthFiles

\* the key of parsed_data (a key, or a key inside "state" / "ground_truth")
\* that takes the content of a path
KeyOf(path) ==
    CASE path = "description.md" -> <<"description">>
      [] path = "state" -> <<"state">>
      [] path = "state/logs.jsonl" -> <<"state", "logs">>
      [] path = "state/metrics.json" -> <<"state", "metrics">>
      [] path = "state/events.jsonl" -> <<"state", "events">>
      [] path = "state/topology.json" -> <<"state", "topology">>
      [] path = "state/configuration.yaml" -> <<"state", "configuration">>
      [] path = "ground_truth" -> <<"ground_truth">>
      [] path = "ground_truth/root_cause.md" -> <<"ground_truth", "root_cause">>
      [] path = "ground_truth/causal_graph.json" ->
             <<"ground_truth", "causal_graph">>
      [] path = "ground_truth/resolution.md" -> <<"ground_truth", "resolution">>
      [] path = "ground_truth/metadata.json" -> <<"ground_truth", "metadata">>

Keys == {KeyOf(path) : path \in Paths \ {ScenarioDir}}
PathOf(key) == CHOOSE path \in Paths \ {ScenarioDir} : KeyOf(path) = key

\* the Python type of what is stored for a path: f.read() gives a string,
\* a directory starts a dict, _load_jsonl gives a list, _load_json and
\* _load_yaml give the parsed document
Loaded(path) ==
    CASE path \in {"description.md", "ground_truth/root_cause.md",
                   "ground_truth/resolution.md"} -> "str"
      [] path \in {"state", "ground_truth"} -> "rec"
      [] path \in {"state/logs.jsonl", "state/events.jsonl"} -> "list"
      [] path = "state/configuration.yaml" -> "yaml"
      [] OTHER -> "json"

\* a key is set whether or not its file exists
LoadFile_Placeholder(fs, path) == Loaded(path)

\* "if os.path.exists(path): parsed_data[...] = ..."
LoadFile(fs, path) == IF path \in fs.paths THEN Loaded(path) ELSE "absent"

\* the files of "state" and "ground_truth" are looked for only inside the
\* branch of their directory
Parsed(fs, path) ==
    IF path \in StateFiles /\ LoadFile(fs, "state") = "absent" THEN "absent"
    ELSE IF path \in GroundTruthFiles /\ LoadFile(fs, "ground_truth") = "absent"
    THEN "absent"
    ELSE LoadFile(fs, path)

\* str(e) of the FileNotFoundError
NotFoundMessage(scenario_id) ==
    <<"Scenario", scenario_id, "not found", "at", scenario_id>>

\* parsed_data: the type of the value under each key ("absent": no such
\* key) and the document read from causal_graph.json
load_scenario(scenario_id, fs) ==
    IF ScenarioDir \notin fs.paths
    THEN Raise("FileNotFoundError", NotFoundMessage(scenario_id))
    ELSE Return([keys |-> [key \in Keys |-> Parsed(fs, PathOf(key))],
                 causal_graph |->
                     IF Parsed(fs, "ground_truth/causal_graph.json") = "absent"
                     THEN NonRecGraph("absent")
                     ELSE fs.graph])

\* a file lies in its directory, and everything in the scenario directory
Consistent(paths) ==
    /\ paths # {} => ScenarioDir \in paths
    /\ paths \cap StateFiles # {} => "state" \in paths
    /\ paths \cap GroundTruthFiles # {} => "ground_truth" \in paths

\* documents found in causal_graph.json
FileGraphs ==
    {Graph(Nodes(<<Node(Label("High Login Rate"))>>)), NonRecGraph("list")}

FileSystems ==
    {[paths |-> paths, graph |-> graph] :
        paths \in {p \in SUBSET Paths : Consistent(p)}, graph \in FileGraphs}

ScenarioIds == {"scenario_full", "scenario_partial", "non_existent_scenario"}

----------------------------------------------------------------------------
(* ScenarioEvaluationWriter.write_results (evaluation_writer.py) *)

\* readings of the clock within one second
TicksPerSecond == 2

\* datetime.now().strftime("%Y%m%d_%H%M%S"): the time to the second
strftime(now) == now \div TicksPerSecond

\* _get_scenario_path: every character that is not alphanumeric, "-" or "_"
\* becomes "_"
safe_scenario_name(scenario_name) ==
    CASE scenario_name = "scenario.full" -> "scenario_full"
      [] OTHER -> scenario_name

\* json.dump to run_dir/safe_scenario_name/results.json; open(..., "w")
\* replaces a file already there
WriteFile(files, dir, scenario_name, score_data) ==
    {file \in files :
        file.dir # dir \/ file.name # safe_scenario_name(scenario_name)}
    \cup {[dir |-> dir, name |-> safe_scenario_name(scenario_name),
           data |-> score_data]}

----------------------------------------------------------------------------
(* ScenarioEvaluatorOrchestrator.evaluate_scenario                         *)
(* (scenario_evaluator_orchestrator.py)                                    *)

\* the evaluations that can run on the one orchestrator
Evals == {1, 2}

ResultKeys ==
    {"scenario_id", "loaded_data_summary", "agent_output", "comparison_scores",
     "efficiency_score", "error"}

\* a key that scenario_results does not have
Unset == [t |-> "absent"]

\* scenario_results = {"scenario_id": scenario_id}
NewResults(scenario_id) ==
    [key \in ResultKeys |->
        IF key = "scenario_id" THEN [t |-> "str", s |-> scenario_id]
        ELSE Unset]

\* the except clause stores nothing
WithError_NotStored(results, exc) == results

\* scenario_results["error"] = str(e)
WithError(results, exc) ==
    [results EXCEPT !["error"] = [t |-> "str", s |-> exc]]

\* lines 66-70
LoadedDataSummary(data) ==
    [t |-> "rec",
     description_loaded |-> data.keys[<<"description">>] # "absent",
     state_loaded |-> data.keys[<<"state">>] # "absent",
     ground_truth_loaded |-> data.keys[<<"ground_truth">>] # "absent"]

\* scenario_data["ground_truth"] as compare reads it: root_cause and
\* resolution are what f.read() gave, causal_graph the parsed document
GroundTruthOf(data) ==
    Output(NonRecRootCause(data.keys[<<"ground_truth", "root_cause">>]),
           NonRecResolution(data.keys[<<"ground_truth", "resolution">>]),
           data.causal_graph, Absent)

\* lines 81-91: the comparison_scores entry, or the exception of compare
ComparisonScores(f, data, reply) ==
    IF data.keys[<<"ground_truth">>] # "absent"
    THEN LET scores == compare(f, reply, GroundTruthOf(data))
         IN IF scores.exc # "none" THEN scores
            ELSE Return([t |-> "rec", error |-> "none", scores |-> scores.val])
    ELSE Return([t |-> "rec", error |-> "Ground truth not available",
                 scores |-> NoScores])

\* the token_set_ratio table of the evaluations: different labels score 79
StrictFuzz == FuzzTable([pair \in SUBSET LabelNames |-> 79])

\* a three-section output with structured sections
WellFormedOutput ==
    Output(RootCause1, Resolution1,
           Graph(Nodes(<<Node(Label("High Login Rate"))>>)), Absent)

\* what LLMAgentAdapter.interact_with_agent returns
SimulatedOutput ==
    Output(NonRecRootCause("str"), NonRecResolution("str"),
           NonRecGraph("absent"), List(2))

NoOutput ==
    Output(NonRecRootCause("absent"), NonRecResolution("absent"),
           NonRecGraph("absent"), Absent)

\* interact_with_agent returns an output or raises
AgentReplies ==
    {Return(WellFormedOutput), Return(ParsingFailedOutput),
     Return(SimulatedOutput), Raise("RuntimeError", NoOutput)}

\* the scenarios evaluated: the description and the state files are all
\* there or all missing
FullState == {"description.md", "state"} \cup StateFiles
OrchFileSystems ==
    {fs \in FileSystems : fs.paths \cap FullState \in {{}, FullState}}
OrchScenarioIds == {"scenario_full", "scenario.full"}

\* the names evaluate_custom_scenario is called with
CustomNames == {"custom_run", "custom_run_default"}

\* the keys evaluate_custom_scenario requires (line 139)
RequiredKeys == {<<"description">>, <<"state">>, <<"ground_truth">>}

\* a scenario_data argument: the required keys it has, each with what the
\* loader would have stored under it, and root_cause and resolution of the
\* given type
CustomData(present, section) ==
    [keys |->
        [key \in Keys |->
            IF \E top \in RequiredKeys \ present : top[1] = key[1]
            THEN "absent"
            ELSE IF key \in {<<"ground_truth", "root_cause">>,
                             <<"ground_truth", "resolution">>}
            THEN section
            ELSE Loaded(PathOf(key))],
     causal_graph |->
        IF <<"ground_truth">> \in present
        THEN Graph(Nodes(<<Node(Label("High Login Rate"))>>))
        ELSE NonRecGraph("absent")]

CustomDatas ==
    {CustomData(present, section) :
        present \in SUBSET RequiredKeys, section \in {"rec", "str"}}

\* lines 138-143: the check of the top-level keys
validate(data) ==
    IF \A key \in RequiredKeys : data.keys[key] # "absent"
    THEN Return(data)
    ELSE Raise("ValueError", data)

\* scenario_results["error"] = f"Invalid input data: {e}" (line 180) or
\* f"An unexpected error occurred: {e}" (line 183)
WithCustomError(results, exc) ==
    [results EXCEPT
        !["error"] =
            [t |-> "str", s |-> exc,
             prefix |-> IF exc = "ValueError" THEN "Invalid input data"
                        ELSE "An unexpected error occurred"]]

\* the except clauses of the method that is running
Except(method, results, exc) ==
    IF method = "evaluate_scenario" THEN WithError(results, exc)
    ELSE WithCustomError(results, exc)

\* compare is called before the timer is stopped
Following_StopAfterCompare(statement) ==
    CASE statement = "evaluate_scenario" -> "load"
      [] statement = "evaluate_custom_scenario" -> "validate"
      [] statement \in {"load", "validate"} -> "start_timer"
      [] statement = "start_timer" -> "agent"
      [] statement = "agent" -> "compare"
      [] statement = "compare" -> "stop_timer"
      [] statement = "stop_timer" -> "efficiency"
      [] statement = "efficiency" -> "write"

\* efficiency_score is stored before compare is called
Following_EfficiencyFirst(statement) ==
    CASE statement = "evaluate_scenario" -> "load"
      [] statement = "evaluate_custom_scenario" -> "validate"
      [] statement \in {"load", "validate"} -> "start_timer"
      [] statement = "start_timer" -> "agent"
      [] statement = "agent" -> "stop_timer"
      [] statement = "stop_timer" -> "efficiency"
      [] statement = "efficiency" -> "compare"
      [] statement = "compare" -> "write"

\* the statement that runs after a statement of the try block (or the entry
\* of a method) has completed: lines 65-96 and 138-176 in program order, then
\* the write after the try block
Following(statement) ==
    CASE statement = "evaluate_scenario" -> "load"
      [] statement = "evaluate_custom_scenario" -> "validate"
      [] statement \in {"load", "validate"} -> "start_timer"
      [] statement = "start_timer" -> "agent"
      [] statement = "agent" -> "stop_timer"
      [] statement = "stop_timer" -> "compare"
      [] statement = "compare" -> "efficiency"
      [] statement = "efficiency" -> "write"

\* an except clause has run: the statements left in the try block are
\* skipped and write_results is next
AfterExcept == "write"

\* one call of a component by the orchestrator, with the exception it raised
Called(op, exc) == [op |-> op, exc |-> exc]

\* the times of an evaluation's own start_timer and stop calls
NoTimes == [start |-> NotStarted, stop |-> NotStarted]

\* what the /evaluate handler passes: all the keys, ground truth sections as
\* the documents of the request
WebScenarioData == CustomData(RequiredKeys, "rec")
WebRunName == "custom_run_default"

NoData == [keys |-> [key \in Keys |-> "absent"],
           causal_graph |-> NonRecGraph("absent")]

----------------------------------------------------------------------------
(* Calls of ResultComparator.compare running at the same time              *)
(* (result_comparator.py 29-58)                                            *)

\* the threads that call compare on the one instance
Callers == {1, 2}

\* the scores are kept in one place shared by all calls, as attributes of
\* the instance would be
Frame_OnInstance(caller) ==
    CHOOSE shared \in Callers : \A c \in Callers : shared <= c

\* rca_root_cause_score, resolution_correctness_score and
\* rca_causal_graph_score are local variables: each call has its own
Frame(caller) == caller

NoFrame ==
    [rca_root_cause_score |-> Zero, resolution_correctness_score |-> Zero,
     rca_causal_graph_score |-> Zero]

\* arguments of the concurrent calls
CallerOutputs ==
    {WellFormedOutput, ParsingFailedOutput,
     Output(EmptyRootCause, Resolution1, EmptyGraph, Absent),
     Output([RootCause1 EXCEPT !.details = Str(<<"DB">>)], EmptyResolution,
            Graph(Nodes(<<Node(Label("Auth DB Exhaustion"))>>)), Absent)}
CallerGroundTruths ==
    {Output(RootCause1, Resolution1,
            Graph(Nodes(<<Node(Label("High Login Rate"))>>)), Absent),
     Output(EmptyRootCause, EmptyResolution, EmptyGraph, Absent)}

----------------------------------------------------------------------------
(* State machine: each scoring function is called once on drawn arguments *)

NoRet == Return(Zero)
NoFuzz == FuzzTable([p \in SUBSET LabelNames |-> 0])

CompIdle ==
    /\ comp_pc = "idle"
    /\ comp1 = NonRecComponent("null")
    /\ comp2 = NonRecComponent("null")
    /\ comp_ret = Zero

SimIdle ==
    /\ sim_pc = "idle"
    /\ text1 = Null
    /\ text2 = Null
    /\ sim_ret = NoRet
    /\ sim_vectorized = FALSE

SecIdle ==
    /\ sec_pc = "idle"
    /\ agent_sec = EmptyRootCause
    /\ gt_sec = EmptyRootCause
    /\ sec_ret = NoRet

CgIdle ==
    /\ cg_pc = "idle"
    /\ graph1 = EmptyGraph
    /\ graph2 = EmptyGraph
    /\ fuzz = NoFuzz
    /\ agent_labels = <<>>
    /\ gt_labels = <<>>
    /\ idx = 1
    /\ match_count = 0
    /\ remaining_gt_labels = <<>>
    /\ pool_obj = "none"
    /\ cg_ret = Zero
    /\ matched = {}

ExtractIdle ==
    /\ ex_pc = "idle"
    /\ ex_graph = EmptyGraph
    /\ ex_labels = <<>>

CmpIdle ==
    /\ cmp_pc = "idle"
    /\ agent_output = Output(NonRecRootCause("absent"),
                             NonRecResolution("absent"),
                             NonRecGraph("absent"), Absent)
    /\ ground_truth = agent_output
    /\ cmp_ret = Raise("none", NoScores)

TimerIdle ==
    /\ _start_time = Null
    /\ clock = 0
    /\ calls = <<>>

LoadIdle ==
    /\ load_pc = "idle"
    /\ load_id = "scenario_full"
    /\ load_fs = [paths |-> {}, graph |-> NonRecGraph("list")]
    /\ load_ret = Raise("none", <<>>)

OrchIdle ==
    /\ orch_pc = [e \in Evals |-> "idle"]
    /\ orch_id = [e \in Evals |-> "scenario_full"]
    /\ orch_fs = [e \in Evals |-> [paths |-> {}, graph |-> NonRecGraph("list")]]
    /\ scenario_data = [e \in Evals |-> NoData]
    /\ orch_agent_output = [e \in Evals |-> NoOutput]
    /\ efficiency_score = [e \in Evals |-> NotStarted]
    /\ scenario_results = [e \in Evals |-> NewResults("scenario_full")]
    /\ orch_ret = [e \in Evals |-> Raise("none", NewResults("scenario_full"))]
    /\ orch_method = [e \in Evals |-> "evaluate_scenario"]
    /\ orch_calls = [e \in Evals |-> <<>>]
    /\ own_timer = [e \in Evals |-> NoTimes]

\* a new base directory; self.run_dir is not set before the first write
WriterIdle ==
    /\ run_dir = NotStarted
    /\ run_dirs = {}
    /\ results_json = {}

CallersIdle ==
    /\ cc_pc = [c \in Callers |-> "idle"]
    /\ cc_args = [c \in Callers |-> [agent_output |-> NoOutput,
                                      ground_truth |-> NoOutput]]
    /\ cc_frame = [c \in Callers |-> NoFrame]
    /\ cc_ret = [c \in Callers |-> Raise("none", NoScores)]
    /\ cc_interleaved = FALSE

Init ==
    /\ CompIdle /\ SimIdle /\ SecIdle /\ CgIdle /\ CmpIdle
    /\ TimerIdle /\ LoadIdle /\ OrchIdle /\ WriterIdle /\ CallersIdle
    /\ ExtractIdle

CallCompareComponent ==
    /\ comp_pc = "idle"
    /\ \E c1, c2 \in ComponentInputs :
          /\ comp1' = c1
          /\ comp2' = c2
          /\ comp_ret' = compare_component(c1, c2)
    /\ comp_pc' = "done"
    /\ UNCHANGED <<simVars, secVars, cgVars, cmpVars>>
    /\ UNCHANGED pipeVars

CallSemanticSimilarity ==
    /\ sim_pc = "idle"
    /\ \E t1, t2 \in TextInputs :
          /\ text1' = t1
          /\ text2' = t2
          /\ sim_ret' = calculate_semantic_similarity(t1, t2)
          /\ sim_vectorized' = SimilarityTrace(t1, t2).vectorized
    /\ sim_pc' = "done"
    /\ UNCHANGED <<compVars, secVars, cgVars, cmpVars>>
    /\ UNCHANGED pipeVars

CallCompareRootCause ==
    /\ sec_pc = "idle"
    /\ \E a, g \in RootCauseInputs :
          /\ agent_sec' = a
          /\ gt_sec' = g
          /\ sec_ret' = _compare_root_cause(a, g)
    /\ sec_pc' = "root_cause"
    /\ UNCHANGED <<compVars, simVars, cgVars, cmpVars>>
    /\ UNCHANGED pipeVars

CallCompareResolution ==
    /\ sec_pc = "idle"
    /\ \E a, g \in ResolutionInputs :
          /\ agent_sec' = a
          /\ gt_sec' = g
          /\ sec_ret' = _compare_resolution(a, g)
    /\ sec_pc' = "resolution"
    /\ UNCHANGED <<compVars, simVars, cgVars, cmpVars>>
    /\ UNCHANGED pipeVars

\* entry of calculate_causal_graph_score up to the start of the outer loop
CgCall ==
    /\ cg_pc = "idle"
    /\ \E g1, g2 \in GraphInputs, f \in FuzzTables :
          LET early == EmptyPolicy(_extract_labels(g1), _extract_labels(g2))
          IN /\ graph1' = g1
             /\ graph2' = g2
             /\ fuzz' = f
             /\ agent_labels' = _extract_labels(g1)
             /\ gt_labels' = _extract_labels(g2)
             /\ IF early.returns
                THEN /\ cg_pc' = "done"
                     /\ cg_ret' = early.val
                     /\ UNCHANGED <<remaining_gt_labels, pool_obj>>
                ELSE /\ cg_pc' = "loop"
                     /\ remaining_gt_labels' = _extract_labels(g2)
                     /\ pool_obj' = ListCopy("gt_labels")
                     /\ UNCHANGED cg_ret
    /\ UNCHANGED <<idx, match_count, matched>>
    /\ UNCHANGED <<compVars, simVars, secVars, cmpVars>>
    /\ UNCHANGED pipeVars

\* one iteration of "for agent_label in agent_labels"
CgIterate ==
    /\ cg_pc = "loop"
    /\ idx <= Len(agent_labels)
    /\ LET step == GreedyStep(fuzz, agent_labels[idx], match_count,
                              remaining_gt_labels)
       IN /\ match_count' = step.match_count
          /\ matched' = IF step.match_count > match_count
                        THEN matched \cup {idx} ELSE matched
          /\ remaining_gt_labels' = step.remaining
          \* "del" changes the list object, under every name bound to it
          /\ gt_labels' = IF pool_obj = "gt_labels" THEN step.remaining
                          ELSE gt_labels
    /\ idx' = idx + 1
    /\ UNCHANGED <<graph1, graph2, fuzz, cg_pc, agent_labels, pool_obj, cg_ret>>
    /\ UNCHANGED <<compVars, simVars, secVars, cmpVars>>
    /\ UNCHANGED pipeVars

\* the loop is over: compute and return the score
CgReturn ==
    /\ cg_pc = "loop"
    /\ idx > Len(agent_labels)
    /\ cg_ret' = DiceScore(match_count, agent_labels, gt_labels)
    /\ cg_pc' = "done"
    /\ UNCHANGED <<graph1, graph2, fuzz, agent_labels, gt_labels, idx,
                   match_count, remaining_gt_labels, pool_obj, matched>>
    /\ UNCHANGED <<compVars, simVars, secVars, cmpVars>>
    /\ UNCHANGED pipeVars

CallCompare ==
    /\ cmp_pc = "idle"
    /\ \E ao \in AgentOutputs, gt \in GroundTruths, f \in CompareFuzzTables :
          /\ agent_output' = ao
          /\ ground_truth' = gt
          /\ fuzz' = f
          /\ cmp_ret' = compare(f, ao, gt)
    /\ cmp_pc' = "done"
    /\ UNCHANGED <<graph1, graph2, cg_pc, agent_labels, gt_labels, idx,
                   match_count, remaining_gt_labels, pool_obj, cg_ret, matched>>
    /\ UNCHANGED <<compVars, simVars, secVars>>
    /\ UNCHANGED pipeVars

\* time passes
Tick ==
    /\ clock < MaxClock
    /\ clock' = clock + 1
    /\ UNCHANGED <<_start_time, calls, loadVars, orchVars, writerVars, ccVars, scoreVars>>

CallStartTimer ==
    /\ Len(calls) < MaxCalls
    /\ _start_time' = start_timer(clock)
    /\ calls' = Append(calls, [op |-> "start_timer", at |-> clock,
                               ret |-> NotStarted])
    /\ UNCHANGED <<clock, loadVars, orchVars, writerVars, ccVars, scoreVars>>

CallStopTimer ==
    /\ Len(calls) < MaxCalls
    /\ LET stop == stop_timer_and_evaluate(_start_time, clock)
       IN /\ _start_time' = stop.start
          /\ calls' = Append(calls, [op |-> "stop_timer_and_evaluate",
                                     at |-> clock, ret |-> stop.ret])
    /\ UNCHANGED <<clock, loadVars, orchVars, writerVars, ccVars, scoreVars>>

CallLoadScenario ==
    /\ load_pc = "idle"
    /\ \E scenario_id \in ScenarioIds, fs \in FileSystems :
          /\ load_id' = scenario_id
          /\ load_fs' = fs
          /\ load_ret' = load_scenario(scenario_id, fs)
    /\ load_pc' = "done"
    /\ UNCHANGED <<timerVars, orchVars, writerVars, ccVars, scoreVars>>

\* evaluate_scenario(scenario_id) is called: line 60
OrchCall(e) ==
    /\ orch_pc[e] = "idle"
    /\ \E scenario_id \in OrchScenarioIds, fs \in OrchFileSystems :
          /\ orch_id' = [orch_id EXCEPT ![e] = scenario_id]
          /\ orch_fs' = [orch_fs EXCEPT ![e] = fs]
          /\ scenario_results' =
                 [scenario_results EXCEPT ![e] = NewResults(scenario_id)]
    /\ orch_method' = [orch_method EXCEPT ![e] = "evaluate_scenario"]
    /\ orch_pc' = [orch_pc EXCEPT ![e] = Following("evaluate_scenario")]
    /\ UNCHANGED <<scenario_data, orch_agent_output, efficiency_score, orch_ret,
                   orch_calls, own_timer>>
    /\ UNCHANGED <<timerVars, loadVars, writerVars, ccVars, scoreVars>>

\* lines 65-70, and the except clauses for an exception of the loader
OrchLoad(e) ==
    /\ orch_pc[e] = "load"
    /\ LET loaded == load_scenario(orch_id[e], orch_fs[e])
       IN /\ orch_calls' =
                 [orch_calls EXCEPT
                     ![e] = Append(@, Called("load_scenario", loaded.exc))]
          /\ IF loaded.exc # "none"
             THEN /\ scenario_results' =
                         [scenario_results EXCEPT ![e] = WithError(@, loaded.exc)]
                  /\ orch_pc' = [orch_pc EXCEPT ![e] = AfterExcept]
                  /\ UNCHANGED scenario_data
             ELSE /\ scenario_data' = [scenario_data EXCEPT ![e] = loaded.val]
                  /\ scenario_results' =
                         [scenario_results EXCEPT
                             ![e]["loaded_data_summary"] =
                                 LoadedDataSummary(loaded.val)]
                  /\ orch_pc' = [orch_pc EXCEPT ![e] = Following("load")]
    /\ UNCHANGED <<orch_id, orch_fs, orch_agent_output, efficiency_score,
                   orch_ret, orch_method, own_timer>>
    /\ UNCHANGED <<timerVars, loadVars, writerVars, ccVars, scoreVars>>

\* evaluate_custom_scenario(scenario_data, custom_scenario_name) is called:
\* lines 132-134
OrchCallCustom(e) ==
    /\ orch_pc[e] = "idle"
    /\ \E custom_scenario_name \in CustomNames, data \in CustomDatas :
          /\ orch_id' = [orch_id EXCEPT ![e] = custom_scenario_name]
          /\ scenario_data' = [scenario_data EXCEPT ![e] = data]
          /\ scenario_results' =
                 [scenario_results EXCEPT
                     ![e] = NewResults(custom_scenario_name)]
    /\ orch_method' = [orch_method EXCEPT ![e] = "evaluate_custom_scenario"]
    /\ orch_pc' = [orch_pc EXCEPT ![e] = Following("evaluate_custom_scenario")]
    /\ UNCHANGED <<orch_fs, orch_agent_output, efficiency_score, orch_ret,
                   orch_calls, own_timer>>
    /\ UNCHANGED <<timerVars, loadVars, writerVars, ccVars, scoreVars>>

\* lines 138-149, and the except clause for the ValueError
OrchValidate(e) ==
    /\ orch_pc[e] = "validate"
    /\ LET checked == validate(scenario_data[e])
       IN /\ orch_calls' =
                 [orch_calls EXCEPT
                     ![e] = Append(@, Called("validate", checked.exc))]
          /\ IF checked.exc # "none"
             THEN /\ scenario_results' =
                         [scenario_results EXCEPT
                             ![e] = WithCustomError(@, checked.exc)]
                  /\ orch_pc' = [orch_pc EXCEPT ![e] = AfterExcept]
             ELSE /\ scenario_results' =
                         [scenario_results EXCEPT
                             ![e]["loaded_data_summary"] =
                                 LoadedDataSummary(scenario_data[e])]
                  /\ orch_pc' = [orch_pc EXCEPT ![e] = Following("validate")]
    /\ UNCHANGED <<orch_id, orch_fs, scenario_data, orch_agent_output,
                   efficiency_score, orch_ret, orch_method, own_timer>>
    /\ UNCHANGED <<timerVars, loadVars, writerVars, ccVars, scoreVars>>

\* line 73 (line 152)
OrchStartTimer(e) ==
    /\ orch_pc[e] = "start_timer"
    /\ _start_time' = start_timer(clock)
    /\ orch_calls' =
           [orch_calls EXCEPT ![e] = Append(@, Called("start_timer", "none"))]
    /\ own_timer' = [own_timer EXCEPT ![e].start = clock]
    /\ orch_pc' = [orch_pc EXCEPT ![e] = Following("start_timer")]
    /\ UNCHANGED <<orch_id, orch_fs, scenario_data, orch_agent_output,
                   efficiency_score, scenario_results, orch_ret, orch_method>>
    /\ UNCHANGED <<clock, calls, loadVars, writerVars, ccVars, scoreVars>>

\* line 74 (line 153), and the except clause for an exception of the agent
OrchAgent(e) ==
    /\ orch_pc[e] = "agent"
    /\ \E reply \in AgentReplies :
          /\ orch_calls' =
                 [orch_calls EXCEPT
                     ![e] = Append(@, Called("interact_with_agent", reply.exc))]
          /\ IF reply.exc # "none"
             THEN /\ scenario_results' =
                         [scenario_results EXCEPT
                             ![e] = Except(orch_method[e], @, reply.exc)]
                  /\ orch_pc' = [orch_pc EXCEPT ![e] = AfterExcept]
                  /\ UNCHANGED orch_agent_output
             ELSE /\ orch_agent_output' =
                         [orch_agent_output EXCEPT ![e] = reply.val]
                  /\ orch_pc' = [orch_pc EXCEPT ![e] = Following("agent")]
                  /\ UNCHANGED scenario_results
    /\ UNCHANGED <<orch_id, orch_fs, scenario_data, efficiency_score, orch_ret,
                   orch_method, own_timer>>
    /\ UNCHANGED <<timerVars, loadVars, writerVars, ccVars, scoreVars>>

\* lines 76-77 (lines 154-155)
OrchStopTimer(e) ==
    /\ orch_pc[e] = "stop_timer"
    /\ LET stop == stop_timer_and_evaluate(_start_time, clock)
       IN /\ _start_time' = stop.start
          /\ efficiency_score' = [efficiency_score EXCEPT ![e] = stop.ret]
    /\ scenario_results' =
           [scenario_results EXCEPT
               ![e]["agent_output"] = [t |-> "rec", v |-> orch_agent_output[e]]]
    /\ orch_calls' =
           [orch_calls EXCEPT
               ![e] = Append(@, Called("stop_timer_and_evaluate", "none"))]
    /\ own_timer' = [own_timer EXCEPT ![e].stop = clock]
    /\ orch_pc' = [orch_pc EXCEPT ![e] = Following("stop_timer")]
    /\ UNCHANGED <<orch_id, orch_fs, scenario_data, orch_agent_output, orch_ret,
                   orch_method>>
    /\ UNCHANGED <<clock, calls, loadVars, writerVars, ccVars, scoreVars>>

\* lines 86 and 89-91 (lines 164 and 170-172) and the except clause for an
\* exception of compare: what becomes of the outcome of the comparison
StoreComparison(e, comparison_scores) ==
    /\ orch_calls' =
           [orch_calls EXCEPT
               ![e] = IF scenario_data[e].keys[<<"ground_truth">>] # "absent"
                      THEN Append(@, Called("compare", comparison_scores.exc))
                      ELSE @]
    /\ IF comparison_scores.exc # "none"
       THEN /\ scenario_results' =
                   [scenario_results EXCEPT
                       ![e] = Except(orch_method[e], @, comparison_scores.exc)]
            /\ orch_pc' = [orch_pc EXCEPT ![e] = AfterExcept]
       ELSE /\ scenario_results' =
                   [scenario_results EXCEPT
                       ![e]["comparison_scores"] = comparison_scores.val]
            /\ orch_pc' = [orch_pc EXCEPT ![e] = Following("compare")]

\* lines 81-91 (lines 159-172)
OrchCompare(e) ==
    /\ orch_pc[e] = "compare"
    /\ StoreComparison(e, ComparisonScores(StrictFuzz, scenario_data[e],
                                           orch_agent_output[e]))
    /\ UNCHANGED <<orch_id, orch_fs, scenario_data, orch_agent_output,
                   efficiency_score, orch_ret, orch_method, own_timer>>
    /\ UNCHANGED <<timerVars, loadVars, writerVars, ccVars, scoreVars>>

\* line 96 (line 176)
OrchEfficiency(e) ==
    /\ orch_pc[e] = "efficiency"
    /\ scenario_results' =
           [scenario_results EXCEPT
               ![e]["efficiency_score"] = Num(efficiency_score[e])]
    /\ orch_pc' = [orch_pc EXCEPT ![e] = Following("efficiency")]
    /\ UNCHANGED <<orch_id, orch_fs, scenario_data, orch_agent_output,
                   efficiency_score, orch_ret, orch_method, orch_calls,
                   own_timer>>
    /\ UNCHANGED <<timerVars, loadVars, writerVars, ccVars, scoreVars>>

\* line 109 (line 191), write_results: _create_base_dir; mkdir() raises
\* FileExistsError when the directory of this second is already there, and
\* nothing catches it
OrchCreateRunDir(e) ==
    /\ orch_pc[e] = "write"
    /\ run_dir' = strftime(clock)
    /\ IF strftime(clock) \in run_dirs
       THEN /\ orch_pc' = [orch_pc EXCEPT ![e] = "raised"]
            /\ orch_ret' = [orch_ret EXCEPT
                               ![e] = Raise("FileExistsError", scenario_results[e])]
            /\ orch_calls' =
                   [orch_calls EXCEPT
                       ![e] = Append(@, Called("write_results",
                                               "FileExistsError"))]
            /\ UNCHANGED run_dirs
       ELSE /\ orch_pc' = [orch_pc EXCEPT ![e] = "write_file"]
            /\ run_dirs' = run_dirs \cup {strftime(clock)}
            /\ orch_calls' =
                   [orch_calls EXCEPT
                       ![e] = Append(@, Called("write_results", "none"))]
            /\ UNCHANGED orch_ret
    /\ UNCHANGED <<orch_id, orch_fs, scenario_data, orch_agent_output,
                   efficiency_score, scenario_results, results_json,
                   orch_method, own_timer>>
    /\ UNCHANGED <<timerVars, loadVars, ccVars, scoreVars>>

\* write_results: _setup_scenario_dir and json.dump, then line 111 (line 193)
OrchWriteFile(e) ==
    /\ orch_pc[e] = "write_file"
    /\ results_json' =
           WriteFile(results_json, run_dir, orch_id[e], scenario_results[e])
    /\ orch_ret' = [orch_ret EXCEPT ![e] = Return(scenario_results[e])]
    /\ orch_pc' = [orch_pc EXCEPT ![e] = "done"]
    /\ UNCHANGED <<orch_id, orch_fs, scenario_data, orch_agent_output,
                   efficiency_score, scenario_results, run_dir, run_dirs,
                   orch_method, orch_calls, own_timer>>
    /\ UNCHANGED <<timerVars, loadVars, ccVars, scoreVars>>

\* the statements the two methods share, from start_timer to the return
Evaluate(e) ==
    \/ OrchStartTimer(e) \/ OrchAgent(e) \/ OrchStopTimer(e) \/ OrchCompare(e)
    \/ OrchEfficiency(e) \/ OrchCreateRunDir(e) \/ OrchWriteFile(e)

evaluate_scenario(e) == OrchCall(e) \/ OrchLoad(e) \/ Evaluate(e)

\* its own first statements; the others are those of Evaluate
evaluate_custom_scenario(e) == OrchCallCustom(e) \/ OrchValidate(e)

\* a request to the web UI's /evaluate, handled on the global orchestrator
WebEvaluate(e) ==
    /\ orch_pc[e] = "idle"
    /\ orch_id' = [orch_id EXCEPT ![e] = WebRunName]
    /\ scenario_data' = [scenario_data EXCEPT ![e] = WebScenarioData]
    /\ scenario_results' =
           [scenario_results EXCEPT ![e] = NewResults(WebRunName)]
    /\ orch_method' = [orch_method EXCEPT ![e] = "evaluate_custom_scenario"]
    /\ orch_pc' = [orch_pc EXCEPT ![e] = Following("evaluate_custom_scenario")]
    /\ UNCHANGED <<orch_fs, orch_agent_output, efficiency_score, orch_ret,
                   orch_calls, own_timer>>
    /\ UNCHANGED <<timerVars, loadVars, writerVars, ccVars, scoreVars>>

\* a step of caller c while another call is under way
Interleaves(c) ==
    \E other \in Callers \ {c} : cc_pc[other] \notin {"idle", "done"}

\* compare(agent_output, ground_truth) is called
CcCall(c) ==
    /\ cc_pc[c] = "idle"
    /\ \E ao \in CallerOutputs, gt \in CallerGroundTruths :
          cc_args' = [cc_args EXCEPT ![c] = [agent_output |-> ao,
                                            ground_truth |-> gt]]
    /\ cc_pc' = [cc_pc EXCEPT ![c] = "root_cause"]
    /\ cc_interleaved' = (cc_interleaved \/ Interleaves(c))
    /\ UNCHANGED <<cc_frame, cc_ret>>
    /\ UNCHANGED <<timerVars, loadVars, orchVars, writerVars, scoreVars>>

\* lines 43-44 and 50
CcRootCause(c) ==
    /\ cc_pc[c] = "root_cause"
    /\ LET agent_rc == GetDefault(cc_args[c].agent_output, "root_cause",
                                  EmptyRootCause)
           gt_rc == GetDefault(cc_args[c].ground_truth, "root_cause",
                               EmptyRootCause)
           score == _compare_root_cause(agent_rc, gt_rc)
       IN IF score.exc # "none"
          THEN /\ cc_ret' = [cc_ret EXCEPT ![c] = Raise(score.exc, NoScores)]
               /\ cc_pc' = [cc_pc EXCEPT ![c] = "done"]
               /\ UNCHANGED cc_frame
          ELSE /\ cc_frame' = [cc_frame EXCEPT
                                  ![Frame(c)].rca_root_cause_score = score.val]
               /\ cc_pc' = [cc_pc EXCEPT ![c] = "resolution"]
               /\ UNCHANGED cc_ret
    /\ cc_interleaved' = (cc_interleaved \/ Interleaves(c))
    /\ UNCHANGED cc_args
    /\ UNCHANGED <<timerVars, loadVars, orchVars, writerVars, scoreVars>>

\* lines 45-46 and 51
CcResolution(c) ==
    /\ cc_pc[c] = "resolution"
    /\ LET agent_res == GetDefault(cc_args[c].agent_output, "resolution",
                                   EmptyResolution)
           gt_res == GetDefault(cc_args[c].ground_truth, "resolution",
                                EmptyResolution)
           score == _compare_resolution(agent_res, gt_res)
       IN IF score.exc # "none"
          THEN /\ cc_ret' = [cc_ret EXCEPT ![c] = Raise(score.exc, NoScores)]
               /\ cc_pc' = [cc_pc EXCEPT ![c] = "done"]
               /\ UNCHANGED cc_frame
          ELSE /\ cc_frame' = [cc_frame EXCEPT
                                  ![Frame(c)].resolution_correctness_score =
                                      score.val]
               /\ cc_pc' = [cc_pc EXCEPT ![c] = "causal_graph"]
               /\ UNCHANGED cc_ret
    /\ cc_interleaved' = (cc_interleaved \/ Interleaves(c))
    /\ UNCHANGED cc_args
    /\ UNCHANGED <<timerVars, loadVars, orchVars, writerVars, scoreVars>>

\* lines 47-48 and 52
CcCausalGraph(c) ==
    /\ cc_pc[c] = "causal_graph"
    /\ LET agent_cg == GetDefault(cc_args[c].agent_output, "causal_graph",
                                  EmptyGraph)
           gt_cg == GetDefault(cc_args[c].ground_truth, "causal_graph",
                               EmptyGraph)
       IN cc_frame' = [cc_frame EXCEPT
                          ![Frame(c)].rca_causal_graph_score =
                              calculate_causal_graph_score(StrictFuzz, agent_cg,
                                                           gt_cg)]
    /\ cc_pc' = [cc_pc EXCEPT ![c] = "return"]
    /\ cc_interleaved' = (cc_interleaved \/ Interleaves(c))
    /\ UNCHANGED <<cc_args, cc_ret>>
    /\ UNCHANGED <<timerVars, loadVars, orchVars, writerVars, scoreVars>>

\* lines 54-58
CcReturn(c) ==
    /\ cc_pc[c] = "return"
    /\ cc_ret' = [cc_ret EXCEPT ![c] = Return(cc_frame[Frame(c)])]
    /\ cc_pc' = [cc_pc EXCEPT ![c] = "done"]
    /\ cc_interleaved' = (cc_interleaved \/ Interleaves(c))
    /\ UNCHANGED <<cc_args, cc_frame>>
    /\ UNCHANGED <<timerVars, loadVars, orchVars, writerVars, scoreVars>>

\* _extract_labels(graph), lines 62-77
CallExtractLabels ==
    /\ ex_pc = "idle"
    /\ \E graph \in ExtractGraphInputs :
          /\ ex_graph' = graph
          /\ ex_labels' = _extract_labels(graph)
    /\ ex_pc' = "done"
    /\ UNCHANGED graphCallVars

NextComponent == CallCompareComponent
NextSimilarity == CallSemanticSimilarity
NextSection == CallCompareRootCause \/ CallCompareResolution
NextGraph == CgCall \/ CgIterate \/ CgReturn
NextCompare == CallCompare
NextTimer == Tick \/ CallStartTimer \/ CallStopTimer
NextLoader == CallLoadScenario
NextExtract == CallExtractLabels
NextCallers ==
    \E c \in Callers :
        \/ CcCall(c) \/ CcRootCause(c) \/ CcResolution(c) \/ CcCausalGraph(c)
        \/ CcReturn(c)
\* one evaluation at a time
NextOrchestrator ==
    Tick \/ evaluate_scenario(1) \/ evaluate_custom_scenario(1)
\* requests handled by the threads of the web server
NextShared ==
    \/ Tick
    \/ \E e \in Evals : WebEvaluate(e) \/ OrchValidate(e) \/ Evaluate(e)

SpecComponent == Init /\ [][NextComponent]_vars
SpecSimilarity == Init /\ [][NextSimilarity]_vars
SpecSection == Init /\ [][NextSection]_vars
SpecGraph == Init /\ [][NextGraph]_vars
SpecCompare == Init /\ [][NextCompare]_vars
SpecTimer == Init /\ [][NextTimer]_vars
SpecLoader == Init /\ [][NextLoader]_vars
SpecExtract == Init /\ [][NextExtract]_vars
SpecCallers == Init /\ [][NextCallers]_vars
SpecOrchestrator == Init /\ [][NextOrchestrator]_vars
SpecShared == Init /\ [][NextShared]_vars

----------------------------------------------------------------------------
(* Properties of ResultComparator.compare (SpecCompare) *)

ScoreKeys ==
    {"rca_root_cause_score", "rca_causal_graph_score",
     "resolution_correctness_score"}

CompareReturned == cmp_pc = "done" /\ cmp_ret.exc = "none"

\* C1: compare never raises, whatever the shape of the sections: every call
\* returns a score map.
C1_CompareNeverRaises == cmp_pc = "done" => cmp_ret.exc = "none"

\* C2: whenever compare returns, each of the three scores lies in [0, 1];
\* the root-cause weights and the resolution weights each sum to 1.
C2_ScoresInUnit ==
    /\ rca_weights.type + rca_weights.resource_type + rca_weights.component
           + rca_weights.details = 10
    /\ res_weights.action_type + res_weights.target_component
           + res_weights.details = 10
    /\ CompareReturned =>
           \A k \in DOMAIN cmp_ret.val : InUnit(cmp_ret.val[k])

\* both weighted sums reach 1 and the graph score is strictly inside (0, 1)
C2_Witness ==
    /\ CompareReturned
    /\ IsOne(cmp_ret.val.rca_root_cause_score)
    /\ IsOne(cmp_ret.val.resolution_correctness_score)
    /\ ~IsZero(cmp_ret.val.rca_causal_graph_score)
    /\ ~IsOne(cmp_ret.val.rca_causal_graph_score)

\* the mapping {}
EmptyOutput ==
    Output(NonRecRootCause("absent"), NonRecResolution("absent"),
           NonRecGraph("absent"), Absent)

\* the mapping with every missing section replaced by an empty record
WithEmptySections(o) ==
    Output(IF o.root_cause.t = "absent" THEN EmptyRootCause ELSE o.root_cause,
           IF o.resolution.t = "absent" THEN EmptyResolution ELSE o.resolution,
           IF o.causal_graph.t = "absent" THEN EmptyGraph ELSE o.causal_graph,
           o.causal_chain)

C4_StringSections ==
    (/\ cmp_pc = "done"
     /\ agent_output.root_cause.t = "str"
     /\ agent_output.resolution.t = "str"
     /\ ground_truth.root_cause.t = "str"
     /\ ground_truth.resolution.t = "str") =>
        /\ cmp_ret.exc = "none"
        /\ \A k \in {"rca_root_cause_score", "rca_causal_chain_score",
                      "resolution_correctness_score"} :
               k \in DOMAIN cmp_ret.val /\ InUnit(cmp_ret.val[k])

----------------------------------------------------------------------------
(* Properties of _compare_root_cause and _compare_resolution (SpecSection) *)

\* a field that is missing or None
IsNone(v) == v.t \in {"absent", "null"}

\* 1 iff the agent's value is present, not None, and equal to the other
ExactMatch(a, g) == IF ~IsNone(a) /\ a = g THEN 1 ELSE 0

\* a component or details field as the argument passed on: None if missing
FieldOrNone(v) == IF v.t = "absent" THEN Null ELSE v
\* a details field as the argument passed on: "" if missing
FieldOrEmpty(v) == IF v.t = "absent" THEN Str(<<>>) ELSE v

\* a details field of the data model: a string, None or missing
IsText(v) == v.t \in {"absent", "null", "str"}

RecordSections == IsDict(agent_sec) /\ IsDict(gt_sec)

DetailsScore ==
    calculate_semantic_similarity(FieldOrEmpty(agent_sec.details),
                                  FieldOrEmpty(gt_sec.details)).val

\* the expected root-cause score, in thousandths
RootCauseExpected ==
    LET component_score ==
            compare_component(FieldOrNone(agent_sec.component),
                              FieldOrNone(gt_sec.component))
    IN Plus(Frac(200 * ExactMatch(agent_sec.type, gt_sec.type)
                 + 200 * ExactMatch(agent_sec.resource_type,
                                    gt_sec.resource_type), 1000),
            Plus(Frac(300 * component_score.num, 1000 * component_score.den),
                 Frac(300 * DetailsScore.num, 1000 * DetailsScore.den)))

\* C5: for record-shaped sections the root-cause score is
\* 0.2*type + 0.2*resource_type + 0.3*component + 0.3*details, the two
\* exact-match scores being 1 iff the agent's value equals the ground truth's
\* and is not null/absent; with textual details the call returns.
C5_RootCauseFormula ==
    (sec_pc = "root_cause" /\ RecordSections) =>
        /\ (IsText(agent_sec.details) /\ IsText(gt_sec.details)) =>
               sec_ret.exc = "none"
        /\ sec_ret.exc = "none" => FracEq(sec_ret.val, RootCauseExpected)

\* type matches, resource_type is missing on both sides, the components
\* match and the details are partly similar
C5_Witness ==
    /\ sec_pc = "root_cause" /\ RecordSections /\ sec_ret.exc = "none"
    /\ ExactMatch(agent_sec.type, gt_sec.type) = 1
    /\ agent_sec.resource_type = Absent /\ gt_sec.resource_type = Absent
    /\ IsDict(agent_sec.component)
    /\ IsOne(compare_component(agent_sec.component, gt_sec.component))
    /\ ~IsZero(DetailsScore) /\ ~IsOne(DetailsScore)
    /\ FracEq(sec_ret.val, Plus(Frac(5, 10), Weighted(3, DetailsScore)))

\* the expected resolution score, in thousandths
ResolutionExpected ==
    LET component_score ==
            compare_component(FieldOrNone(agent_sec.target_component),
                              FieldOrNone(gt_sec.target_component))
    IN Plus(Frac(300 * ExactMatch(agent_sec.action_type, gt_sec.action_type),
                 1000),
            Plus(Frac(400 * component_score.num, 1000 * component_score.den),
                 Frac(300 * DetailsScore.num, 1000 * DetailsScore.den)))

\* C6: for record-shaped sections the resolution score is
\* 0.3*action_type + 0.4*target_component + 0.3*details, action_type scoring
\* 1 iff the agent's value equals the ground truth's and is not null/absent;
\* with textual details the call returns.
C6_ResolutionFormula ==
    (sec_pc = "resolution" /\ RecordSections) =>
        /\ (IsText(agent_sec.details) /\ IsText(gt_sec.details)) =>
               sec_ret.exc = "none"
        /\ sec_ret.exc = "none" => FracEq(sec_ret.val, ResolutionExpected)

\* action_type differs, the target components match and the details are
\* equal up to case
C6_Witness ==
    /\ sec_pc = "resolution" /\ RecordSections /\ sec_ret.exc = "none"
    /\ ~IsNone(agent_sec.action_type) /\ ~IsNone(gt_sec.action_type)
    /\ agent_sec.action_type # gt_sec.action_type
    /\ IsDict(agent_sec.target_component)
    /\ IsOne(compare_component(agent_sec.target_component,
                               gt_sec.target_component))
    /\ ~IsZero(DetailsScore)
    /\ FracEq(sec_ret.val, Plus(Frac(4, 10), Weighted(3, DetailsScore)))

----------------------------------------------------------------------------
(* Properties of compare_component (SpecComponent) *)

\* a record that has both a kind key and a name key
CarriesKindAndName(c) == IsDict(c) /\ c.kind # Absent /\ c.name # Absent

\* C7: for two records that carry kind and name the result is exactly 1.0 or
\* 0.0, and it is 1.0 iff kind is equal, name is equal, and the namespaces
\* are both null/absent or are equal; a namespace on one side only gives 0.0.
C7_ComponentMatch ==
    (comp_pc = "done" /\ CarriesKindAndName(comp1) /\ CarriesKindAndName(comp2)) =>
        /\ comp_ret \in {Zero, One}
        /\ comp_ret = One <=>
               /\ comp1.kind = comp2.kind
               /\ comp1.name = comp2.name
               /\ \/ IsNone(comp1.namespace) /\ IsNone(comp2.namespace)
                  \/ comp1.namespace = comp2.namespace
        /\ IsNone(comp1.namespace) # IsNone(comp2.namespace) =>
               comp_ret = Zero

\* same kind and name, a namespace on the second side only
C7_Witness ==
    /\ comp_pc = "done"
    /\ CarriesKindAndName(comp1) /\ CarriesKindAndName(comp2)
    /\ comp1.kind = comp2.kind /\ comp1.name = comp2.name
    /\ comp1.namespace = Absent /\ comp2.namespace.t = "str"
    /\ comp_ret = Zero

\* a record without a kind key or without a name key
MissingKey(c) == IsDict(c) /\ (c.kind = Absent \/ c.name = Absent)

\* C8: compare_component returns 0.0 for every malformed pair: an argument
\* that is not a record, or a record missing its kind or name key, also
\* when both records miss the same keys.
C8_MalformedIsZero ==
    (/\ comp_pc = "done"
     /\ \/ ~IsDict(comp1) \/ ~IsDict(comp2)
        \/ MissingKey(comp1) \/ MissingKey(comp2)) =>
        comp_ret = Zero

----------------------------------------------------------------------------
(* Properties of calculate_causal_graph_score (SpecGraph) *)

\* an entry of nodes whose label is extracted
ValidNode(node) ==
    /\ node.t = "rec"
    /\ node.label.t = "str"
    /\ \E i \in 1..Len(node.label.s) : node.label.s[i] # " "

\* positions of nodes whose label is extracted
ValidPositions(g) ==
    IF g.t = "rec" /\ g.nodes.t = "list"
    THEN {i \in 1..Len(g.nodes.items) : ValidNode(g.nodes.items[i])}
    ELSE {}

\* C9: the score is 1.0 when both graphs yield no label (None, not a record,
\* nodes missing or not a list, no valid label) and 0.0 when exactly one of
\* them yields no label.
C9_EmptyLabelLists ==
    cg_pc = "done" =>
        /\ (ValidPositions(graph1) = {} /\ ValidPositions(graph2) = {}) =>
               IsOne(cg_ret)
        /\ (ValidPositions(graph1) = {}) # (ValidPositions(graph2) = {}) =>
               IsZero(cg_ret)

\* None against a nodes list that holds only malformed entries
C9_Witness ==
    /\ cg_pc = "done"
    /\ graph1.t = "null"
    /\ graph2.t = "rec" /\ graph2.nodes.t = "list"
    /\ graph2.nodes.items # <<>>
    /\ ValidPositions(graph2) = {}
    /\ IsOne(cg_ret)

\* C10: with two non-empty label lists the score is
\* 2 * match_count / (|A| + |B|), labels counted with duplicates; it is 1.0
\* iff |A| = |B| and every agent label was matched; identical label lists
\* whose labels have self-similarity 100 score 1.0.
C10_DiceScore ==
    LET a == Cardinality(ValidPositions(graph1))
        b == Cardinality(ValidPositions(graph2))
    IN (cg_pc = "done" /\ a > 0 /\ b > 0) =>
           /\ FracEq(cg_ret, Frac(2 * match_count, a + b))
           /\ IsOne(cg_ret) <=> (a = b /\ match_count = a)
           /\ (/\ agent_labels = gt_labels
               /\ \A i \in 1..Len(agent_labels) :
                      token_set_ratio(fuzz, agent_labels[i], agent_labels[i]) = 100)
                  => IsOne(cg_ret)

\* two agent labels, one ground-truth label, one match: 2 * 1 / 3
C10_Witness ==
    /\ cg_pc = "done"
    /\ Len(agent_labels) = 2 /\ Len(gt_labels) = 1
    /\ match_count = 1
    /\ cg_ret = Frac(2, 3)

----------------------------------------------------------------------------
(* Properties of calculate_semantic_similarity (SpecSimilarity) *)

\* a text argument: a string or None
IsTextArg(t) == t.t \in {"str", "null"}

\* a text that is None, empty or made of whitespace only
BlankText(t) ==
    IsTextArg(t) /\ \A i \in 1..Len(t.s) : t.s[i] = " "

\* C11: calculate_semantic_similarity returns 0.0, without invoking the
\* vectorizer and without raising, whenever either text is None, empty or
\* whitespace-only (the first text whatever the second argument is; the
\* second text when the first argument is a text).
C11_BlankTextIsZero ==
    (/\ sim_pc = "done"
     /\ \/ BlankText(text1)
        \/ IsTextArg(text1) /\ BlankText(text2)) =>
        /\ sim_ret = Return(Zero)
        /\ ~sim_vectorized

\* a text with a token against a whitespace-only text
C11_Witness ==
    /\ sim_pc = "done"
    /\ text1.t = "str" /\ Tokens(text1.s) # {}
    /\ text2.t = "str" /\ text2.s # <<>> /\ BlankText(text2)
    /\ sim_ret = Return(Zero)
    /\ ~sim_vectorized

\* a string with a non-whitespace word but no word of two characters or more
NoVocabulary(t) ==
    /\ t.t = "str"
    /\ \E i \in 1..Len(t.s) : t.s[i] # " "
    /\ \A i \in 1..Len(t.s) : t.s[i] \in {" ", "a"}

\* C12: when both texts are non-blank but yield an empty vocabulary, the
\* call does not raise and returns 1.0 if the strings are equal, else 0.0.
C12_EmptyVocabularyFallback ==
    (sim_pc = "done" /\ NoVocabulary(text1) /\ NoVocabulary(text2)) =>
        /\ sim_ret.exc = "none"
        /\ text1 = text2 => IsOne(sim_ret.val)
        /\ text1 # text2 => IsZero(sim_ret.val)

\* two equal strings without a token
C12_Witness ==
    /\ sim_pc = "done"
    /\ NoVocabulary(text1)
    /\ text1 = text2
    /\ sim_vectorized
    /\ sim_ret = Return(One)

----------------------------------------------------------------------------
(* Properties of the greedy pass of calculate_causal_graph_score (SpecGraph) *)

\* the greedy pass has been entered (both label lists were non-empty)
InGreedyPass == cg_pc = "loop" \/ (cg_pc = "done" /\ pool_obj # "none")

\* C13: the scoring code changes none of its arguments: from the call on,
\* graph1 and graph2 (with the ground-truth nodes list) and the label lists
\* extracted from them stay what they were; the greedy pass deletes matched
\* labels from its own copy of the ground-truth labels only.
C13_ArgumentsUnchanged ==
    [][cg_pc # "idle" =>
          /\ graph1' = graph1
          /\ graph2' = graph2
          /\ agent_labels' = agent_labels
          /\ gt_labels' = gt_labels
          /\ gt_labels' = _extract_labels(graph2')]_vars

\* the call has returned after a label was deleted from the pool
C13_Witness ==
    /\ cg_pc = "done"
    /\ pool_obj = "remaining_gt_labels"
    /\ Len(remaining_gt_labels) < Len(gt_labels)
    /\ gt_labels = _extract_labels(graph2)
    /\ Len(graph2.nodes.items) = Len(gt_labels)

\* seq with the element at (1-based) position k left out
Without(seq, k) == SubSeq(seq, 1, k - 1) \o SubSeq(seq, k + 1, Len(seq))

\* sub is seq with some positions left out
RECURSIVE IsSubSeq(_, _)
IsSubSeq(sub, seq) ==
    IF sub = <<>> THEN TRUE
    ELSE IF seq = <<>> THEN FALSE
    ELSE IF Head(sub) = Head(seq) THEN IsSubSeq(Tail(sub), Tail(seq))
    ELSE IsSubSeq(sub, Tail(seq))

\* C19: in the greedy pass every match takes one ground-truth label out of
\* the pool and every agent label is counted at most once: after every
\* iteration match_count + |remaining pool| = |B|, the pool is B with the
\* matched positions left out, and match_count <= min(|A|, |B|).
C19_OneToOne ==
    InGreedyPass =>
        /\ match_count + Len(remaining_gt_labels) = Len(gt_labels)
        /\ IsSubSeq(remaining_gt_labels, gt_labels)
        /\ match_count <= idx - 1
        /\ idx - 1 <= Len(agent_labels)
        /\ match_count <= Min(Len(agent_labels), Len(gt_labels))

\* both agent labels matched, the pool is used up
C19_Witness ==
    /\ cg_pc = "done"
    /\ Len(agent_labels) = 2 /\ Len(gt_labels) = 2
    /\ match_count = 2
    /\ remaining_gt_labels = <<>>

\* the fuzzy scores of the current agent label against the remaining pool
PoolScores ==
    [k \in 1..Len(remaining_gt_labels) |->
        token_set_ratio(fuzz, agent_labels[idx], remaining_gt_labels[k])]

\* the earliest position of the pool that holds the highest score
Candidate ==
    CHOOSE k \in 1..Len(remaining_gt_labels) :
        /\ \A j \in 1..Len(remaining_gt_labels) : PoolScores[j] <= PoolScores[k]
        /\ \A j \in 1..(k - 1) : PoolScores[j] < PoolScores[k]

\* C20: one iteration takes the next agent label in list order and compares
\* it with the remaining pool only; the candidate is the earliest position
\* holding the highest score; iff that score is >= 80 the match is counted
\* and the candidate leaves the pool; otherwise, and with an empty pool,
\* the pool and the count stay as they are and the pass goes on.
C20_GreedyChoice ==
    [][(cg_pc = "loop" /\ cg_pc' = "loop") =>
          /\ idx <= Len(agent_labels)
          /\ idx' = idx + 1
          /\ IF remaining_gt_labels # <<>> /\ PoolScores[Candidate] >= 80
             THEN /\ match_count' = match_count + 1
                  /\ remaining_gt_labels' = Without(remaining_gt_labels, Candidate)
             ELSE /\ match_count' = match_count
                  /\ remaining_gt_labels' = remaining_gt_labels]_vars

\* the first agent label scored 80 against two different ground-truth
\* labels and took the first one; the second agent label scored 79 against
\* what was left
C20_Witness ==
    /\ cg_pc = "done"
    /\ Len(agent_labels) = 2 /\ Len(gt_labels) = 2
    /\ gt_labels[1] # gt_labels[2]
    /\ token_set_ratio(fuzz, agent_labels[1], gt_labels[1]) = 80
    /\ token_set_ratio(fuzz, agent_labels[1], gt_labels[2]) = 80
    /\ token_set_ratio(fuzz, agent_labels[2], gt_labels[2]) = 79
    /\ match_count = 1
    /\ remaining_gt_labels = <<gt_labels[2]>>

----------------------------------------------------------------------------
(* Properties of EfficiencyEvaluator (SpecTimer) *)

IsStop(k) == calls[k].op = "stop_timer_and_evaluate"

\* the start_timer calls made before call k and after the last stop before
\* k that returned a duration (after construction if there is none)
StartsBefore(k) ==
    {j \in 1..(k - 1) :
        /\ calls[j].op = "start_timer"
        /\ \A m \in (j + 1)..(k - 1) :
               ~(IsStop(m) /\ calls[m].ret # NotStarted)}

LastOf(S) == CHOOSE j \in S : \A i \in S : i <= j

\* C18: a stop_timer_and_evaluate call returns -1.0 exactly when no
\* start_timer call was made since construction or since the previous stop
\* that returned a duration; otherwise it returns the time elapsed since the
\* most recent start_timer call; after a stop the timer is reset.
C18_TimerSentinel ==
    \A k \in 1..Len(calls) :
        IsStop(k) =>
            /\ calls[k].ret = NotStarted <=> StartsBefore(k) = {}
            /\ StartsBefore(k) # {} =>
                   calls[k].ret = calls[k].at - calls[LastOf(StartsBefore(k))].at
            /\ k = Len(calls) => _start_time = Null

\* one start, then a stop that returns a positive duration, then a stop
\* that returns -1.0
C18_Witness ==
    /\ Len(calls) = 3
    /\ calls[1].op = "start_timer"
    /\ IsStop(2) /\ calls[2].ret > 0
    /\ IsStop(3) /\ calls[3].ret = NotStarted

----------------------------------------------------------------------------
(* Properties of ScenarioLoader.load_scenario (SpecLoader) *)

----------------------------------------------------------------------------
(* Properties of evaluate_scenario (SpecOrchestrator) *)

\* the scenario of evaluation e has its three ground-truth files
GtFilesPresent(e) ==
    {ScenarioDir, "ground_truth", "ground_truth/root_cause.md",
     "ground_truth/causal_graph.json", "ground_truth/resolution.md"}
        \subseteq orch_fs[e].paths

HasScores(results) ==
    /\ results["comparison_scores"] # Unset
    /\ results["comparison_scores"].error = "none"
    /\ DOMAIN results["comparison_scores"].scores = ScoreKeys

\* C15: an evaluation whose scenario has its ground-truth files and whose
\* agent returned a well-formed output was given root_cause and resolution
\* as records by the loader, and ends with the three comparison scores and
\* without a top-level error.
C15_LoadedGroundTruthIsScored ==
    \A e \in Evals :
        (/\ orch_pc[e] = "done"
         /\ GtFilesPresent(e)
         /\ orch_agent_output[e] = WellFormedOutput) =>
            /\ scenario_data[e].keys[<<"ground_truth", "root_cause">>] = "rec"
            /\ scenario_data[e].keys[<<"ground_truth", "resolution">>] = "rec"
            /\ HasScores(scenario_results[e])
            /\ scenario_results[e]["error"] = Unset

----------------------------------------------------------------------------
(* Properties of compare on the output of the agent (SpecCompare) *)

\* C16: compare called with the fallback output of the agent, whose
\* root_cause and resolution are the string "Parsing failed.", returns a
\* score map instead of raising.
C16_ParsingFailedIsScored ==
    (cmp_pc = "done" /\ agent_output = ParsingFailedOutput) =>
        /\ cmp_ret.exc = "none"
        /\ DOMAIN cmp_ret.val = ScoreKeys

----------------------------------------------------------------------------
(* Properties of concurrent compare calls (SpecCallers) *)

\* the outcome of compare run alone on the arguments of caller c
Alone(c) ==
    compare(StrictFuzz, cc_args[c].agent_output, cc_args[c].ground_truth)

\* C14: however the steps of several compare calls on one instance are
\* interleaved, each call ends with the outcome of the same call run alone,
\* and two calls with identical arguments end with identical outcomes.
C14_CompareIsStateless ==
    \A c \in Callers :
        cc_pc[c] = "done" =>
            /\ cc_ret[c] = Alone(c)
            /\ \A other \in Callers :
                   (cc_pc[other] = "done" /\ cc_args[other] = cc_args[c]) =>
                       cc_ret[other] = cc_ret[c]

\* two interleaved calls with different arguments have returned different
\* score maps
C14_Witness ==
    /\ \A c \in Callers : cc_pc[c] = "done" /\ cc_ret[c].exc = "none"
    /\ cc_interleaved
    /\ cc_args[1] # cc_args[2]
    /\ cc_ret[1] # cc_ret[2]

----------------------------------------------------------------------------
(* The greedy pass against the one-to-one assignments (SpecGraph) *)

\* agent label i and ground-truth label j may be assigned to each other
Acceptable(i, j) ==
    token_set_ratio(fuzz, agent_labels[i], gt_labels[j]) >= 80

SetMax(S) == CHOOSE m \in S : \A n \in S : n <= m

\* the size of a largest one-to-one assignment of the agent labels from
\* position i on to the ground-truth positions outside used, over
\* acceptable pairs
RECURSIVE MaxAssignment(_, _)
MaxAssignment(i, used) ==
    IF i > Len(agent_labels) THEN 0
    ELSE SetMax({MaxAssignment(i + 1, used)}
                \cup {1 + MaxAssignment(i + 1, used \cup {j}) :
                        j \in {k \in (1..Len(gt_labels)) \ used :
                                  Acceptable(i, k)}})

\* C21: the match_count of the greedy pass never exceeds the size of a
\* maximum one-to-one assignment between agent and ground-truth labels over
\* pairs scoring >= 80 (it can be strictly smaller: see the witness).
C21_GreedyAtMostMaximum ==
    InGreedyPass => match_count <= MaxAssignment(1, {})

\* the first agent label took the only acceptable partner of the second
\* although it had another one: one match where two were possible
C21_Witness ==
    /\ cg_pc = "done"
    /\ Len(agent_labels) = 2 /\ Len(gt_labels) = 2
    /\ Acceptable(1, 1) /\ Acceptable(1, 2)
    /\ Acceptable(2, 1) /\ ~Acceptable(2, 2)
    /\ match_count = 1
    /\ MaxAssignment(1, {}) = 2

\* the score with the two graphs exchanged
SwappedScore == calculate_causal_graph_score(fuzz, graph2, graph1)

\* C22: calculate_causal_graph_score is not symmetric, even under a
\* symmetric token_set_ratio: exchanging the graphs keeps the score as long
\* as one of them has at most one label, and changes it for some graphs
\* with two labels each (see the witness).
C22_SymmetricUpToOneLabel ==
    (cg_pc = "done" /\ (Len(agent_labels) <= 1 \/ Len(gt_labels) <= 1)) =>
        FracEq(cg_ret, SwappedScore)

\* score(A, B) = 2/4 and score(B, A) = 4/4 under a symmetric score table
C22_Witness ==
    /\ cg_pc = "done"
    /\ \A a, b \in LabelNames : fuzz[<<a, b>>] = fuzz[<<b, a>>]
    /\ cg_ret = Frac(2, 4)
    /\ IsOne(SwappedScore)

\* the permutations of 1..n
Perms(n) ==
    {p \in [1..n -> 1..n] : \A i, j \in 1..n : p[i] = p[j] => i = j}

\* the graphs that hold the nodes of g in another order
Reorderings(g) ==
    IF g.t = "rec" /\ g.nodes.t = "list"
    THEN {Graph(Nodes([k \in 1..Len(g.nodes.items) |-> g.nodes.items[p[k]]])) :
             p \in Perms(Len(g.nodes.items))}
    ELSE {g}

\* C28 as stated: reordering the nodes of either graph leaves the score
\* unchanged.
C28_OrderIndependent ==
    cg_pc = "done" =>
        \A r1 \in Reorderings(graph1), r2 \in Reorderings(graph2) :
            FracEq(calculate_causal_graph_score(fuzz, r1, r2), cg_ret)

\* equal labels score 100 and different labels score less
SelfBest(labels) ==
    \A i, j \in 1..Len(labels) :
        token_set_ratio(fuzz, labels[i], labels[j]) = 100
            <=> labels[i] = labels[j]

\* C28 amended: a graph scored against a reordering of its own nodes gives
\* 1.0 when equal labels score 100 and different labels score less; the
\* order of the nodes otherwise matters.
C28_SelfReorderingScoresOne ==
    (/\ cg_pc = "done"
     /\ agent_labels # <<>>
     /\ graph2 \in Reorderings(graph1)
     /\ SelfBest(agent_labels)) => IsOne(cg_ret)

\* two different labels, scored against the same two in the other order
C28_Witness ==
    /\ cg_pc = "done"
    /\ Len(agent_labels) = 2
    /\ agent_labels[1] # agent_labels[2]
    /\ gt_labels = <<agent_labels[2], agent_labels[1]>>
    /\ graph2 \in Reorderings(graph1)
    /\ SelfBest(agent_labels)
    /\ IsOne(cg_ret)

\* C29: when the greedy pass ends no agent label that was left unmatched
\* scores >= 80 with a label still in the pool; hence match_count is at
\* least half the size of a maximum one-to-one assignment.
C29_GreedyIsMaximal ==
    (cg_pc = "done" /\ pool_obj # "none") =>
        /\ \A i \in (1..Len(agent_labels)) \ matched :
               \A k \in 1..Len(remaining_gt_labels) :
                   token_set_ratio(fuzz, agent_labels[i],
                                   remaining_gt_labels[k]) < 80
        /\ Cardinality(matched) = match_count
        /\ 2 * match_count >= MaxAssignment(1, {})

\* one agent label matched, the other left unmatched with a label in the
\* pool, where two matches were possible
C29_Witness ==
    /\ cg_pc = "done"
    /\ Len(agent_labels) = 2
    /\ matched = {1}
    /\ remaining_gt_labels # <<>>
    /\ MaxAssignment(1, {}) = 2

----------------------------------------------------------------------------
(* Properties of _extract_labels (SpecExtract) *)

\* the k-th smallest element of a set of positions
Nth(S, k) == CHOOSE p \in S : Cardinality({q \in S : q < p}) = k - 1

\* C23: the labels returned are, in the order of nodes and with duplicates,
\* the labels of the entries that are records with a string label holding a
\* non-whitespace character; None, a non-record graph, a nodes value that is
\* missing or not a list, and every other entry contribute nothing.
C23_ExtractedLabels ==
    ex_pc = "done" =>
        /\ Len(ex_labels) = Cardinality(ValidPositions(ex_graph))
        /\ \A k \in 1..Len(ex_labels) :
               ex_labels[k] =
                   ex_graph.nodes.items[Nth(ValidPositions(ex_graph), k)].label

\* two entries with the same label: the label is returned twice
C23_Witness ==
    /\ ex_pc = "done"
    /\ Len(ex_graph.nodes.items) = 2
    /\ ex_graph.nodes.items[1] = ex_graph.nodes.items[2]
    /\ Len(ex_labels) = 2
    /\ ex_labels[1] = ex_labels[2]

----------------------------------------------------------------------------
(* Properties of evaluate_scenario and evaluate_custom_scenario            *)
(* (SpecOrchestrator)                                                      *)

\* the calls evaluation e has made to the components, oldest first
IsCall(e, k, op) == k \in 1..Len(orch_calls[e]) /\ orch_calls[e][k].op = op
Returned(e, k) == orch_calls[e][k].exc = "none"

\* C24: in both methods start_timer is called only right after the loading
\* (the validation) has succeeded and right before the agent is called; the
\* timer is stopped right after the agent has returned and before compare is
\* called; so the efficiency_score that is recorded is the time between the
\* two, which covers the agent interaction only
C24_TimerAroundAgentOnly ==
    \A e \in Evals :
        /\ \A k \in 1..Len(orch_calls[e]) :
              /\ IsCall(e, k, "start_timer") =>
                     /\ \/ IsCall(e, k - 1, "load_scenario")
                        \/ IsCall(e, k - 1, "validate")
                     /\ Returned(e, k - 1)
                     /\ (k < Len(orch_calls[e]) =>
                            IsCall(e, k + 1, "interact_with_agent"))
              /\ IsCall(e, k, "interact_with_agent") =>
                     /\ IsCall(e, k - 1, "start_timer")
                     /\ (Returned(e, k) /\ k < Len(orch_calls[e]) =>
                            IsCall(e, k + 1, "stop_timer_and_evaluate"))
              /\ IsCall(e, k, "stop_timer_and_evaluate") =>
                     /\ IsCall(e, k - 1, "interact_with_agent")
                     /\ Returned(e, k - 1)
                     /\ \A j \in 1..k : ~IsCall(e, j, "compare")
        /\ scenario_results[e]["efficiency_score"] # Unset =>
               /\ own_timer[e].start # NotStarted
               /\ scenario_results[e]["efficiency_score"] =
                      Num(own_timer[e].stop - own_timer[e].start)

\* a custom evaluation has returned; the agent took one tick and compare was
\* called after the stop
C24_Witness ==
    /\ orch_pc[1] = "done"
    /\ orch_method[1] = "evaluate_custom_scenario"
    /\ scenario_results[1]["efficiency_score"] = Num(1)
    /\ IsCall(1, 4, "stop_timer_and_evaluate")
    /\ IsCall(1, 5, "compare")
    /\ own_timer[1].start = 1

\* the results.json files written for evaluation e
Written(e) ==
    {file \in results_json : file.name = safe_scenario_name(orch_id[e])}

\* C25: write_results is called exactly once per evaluation, as the last
\* call, with the record that is returned, also when loading, validation,
\* the agent or compare raised; such an exception does not leave the method:
\* it is stored as a string under "error" and the steps that were left are
\* skipped (after a failed loading or validation the agent is not called and
\* the timer is not started)
C25_WriteOnceAndErrorsStored ==
    \A e \in Evals :
        /\ \A k \in 1..Len(orch_calls[e]) :
              /\ IsCall(e, k, "write_results") => k = Len(orch_calls[e])
              /\ (~IsCall(e, k, "write_results") /\ ~Returned(e, k)) =>
                     /\ scenario_results[e]["error"] # Unset
                     /\ scenario_results[e]["error"].t = "str"
                     /\ scenario_results[e]["error"].s = orch_calls[e][k].exc
                     /\ \A j \in (k + 1)..Len(orch_calls[e]) :
                            IsCall(e, j, "write_results")
                     /\ orch_ret[e].exc = "none"
                     /\ (k = 1 => own_timer[e].start = NotStarted)
        /\ orch_pc[e] = "done" =>
               /\ IsCall(e, Len(orch_calls[e]), "write_results")
               /\ orch_ret[e] = Return(scenario_results[e])
               /\ \E file \in Written(e) : file.data = orch_ret[e].val

\* compare raised in an evaluation that has returned
C25_Witness ==
    /\ orch_pc[1] = "done"
    /\ \E k \in 1..Len(orch_calls[1]) :
          IsCall(1, k, "compare") /\ ~Returned(1, k)
    /\ Written(1) # {}

\* C26: in every record that is returned, "error" is present exactly when
\* "efficiency_score" is absent, "comparison_scores" is present exactly when
\* "efficiency_score" is, "agent_output" is present whenever
\* "comparison_scores" is, and "scenario_id" is always present
C26_ReturnedRecordKeys ==
    \A e \in Evals :
        orch_ret[e].exc = "none" /\ orch_pc[e] = "done" =>
            LET record == orch_ret[e].val
                Has(key) == record[key] # Unset
            IN /\ Has("error") <=> ~Has("efficiency_score")
               /\ Has("comparison_scores") <=> Has("efficiency_score")
               /\ Has("comparison_scores") => Has("agent_output")
               /\ Has("scenario_id")

\* a record returned after compare raised: it has "agent_output" and
\* "error", and neither "comparison_scores" nor "efficiency_score"
C26_Witness ==
    /\ orch_pc[1] = "done"
    /\ orch_ret[1].val["error"] # Unset
    /\ orch_ret[1].val["agent_output"] # Unset
    /\ orch_ret[1].val["comparison_scores"] = Unset

----------------------------------------------------------------------------
(* Evaluations running at the same time on the web UI's orchestrator       *)
(* (SpecShared)                                                            *)

\* evaluation e has stopped the timer
Stopped(e) ==
    \E k \in 1..Len(orch_calls[e]) : IsCall(e, k, "stop_timer_and_evaluate")

\* C27: when two evaluations run at the same time on the one orchestrator,
\* each evaluation whose agent returns gets an efficiency_score equal to the
\* time between its own start_timer call and its own stop call: never -1.0
\* and never measured from the other evaluation's start
C27_OwnAgentInterval ==
    \A e \in Evals :
        Stopped(e) =>
            /\ efficiency_score[e] # NotStarted
            /\ efficiency_score[e] = own_timer[e].stop - own_timer[e].start

\* C30: write_results succeeds on every call, however many calls were made
\* before on the same base directory and however close in time (two calls
\* in the same second included): each call ends with results.json written
\* under the directory of its scenario name, and no evaluation raises
\* because of an earlier write
C30_WriteAlwaysSucceeds ==
    \A e \in Evals :
        /\ \A k \in 1..Len(orch_calls[e]) :
              IsCall(e, k, "write_results") => Returned(e, k)
        /\ orch_pc[e] # "raised"
        /\ orch_pc[e] = "done" =>
               \E file \in Written(e) : file.dir \in run_dirs

====
